---------------------------- MODULE Spec2Model ----------------------------
(***************************************************************************)
(* The camera control core of the gallery viewer: CameraController         *)
(* (src/src/js/cameraController.js) driven by the animation loop and the   *)
(* collision predicate of src/src/js/main.js.                              *)
(*                                                                         *)
(* Units of the fixed-point arithmetic that stands for the doubles:        *)
(*   time      milliseconds (Date.now(); delta is kept in ms as well)      *)
(*   angles    milliradians (mouseSensitivity 0.001 rad/px = 1 mrad/px)    *)
(*   ratios    1/Scale (intensity, progress, sines, random draws)          *)
(*   lengths   1/10 mm (1 m = 10000)                                       *)
(***************************************************************************)
EXTENDS Integers, Sequences, FiniteSets, TLC

Scale == 1000

\* Math.PI in mrad
Pi == 3142
TwoPi == 2 * Pi
HalfPi == Pi \div 2

Metre == 10000

(***************************************************************************)
(* Arithmetic helpers                                                      *)
(***************************************************************************)
Abs(a) == IF a < 0 THEN -a ELSE a

Min(a, b) == IF a < b THEN a ELSE b

Max(a, b) == IF a > b THEN a ELSE b

\* Division rounding towards zero, as a double truncated to the grid.
Div(a, b) == IF a >= 0 THEN a \div b ELSE -((-a) \div b)

\* Division rounding away from zero: a nonzero quotient stays nonzero.
DivUp(a, b) == IF a >= 0 THEN (a + b - 1) \div b ELSE -((-a + b - 1) \div b)

RECURSIVE SqrtSearch(_, _, _)
SqrtSearch(n, lo, hi) ==
    IF lo >= hi THEN lo
    ELSE LET mid == (lo + hi + 1) \div 2
         IN  IF mid * mid <= n THEN SqrtSearch(n, mid, hi)
             ELSE SqrtSearch(n, lo, mid - 1)

\* Math.sqrt on the integer grid (floor)
Sqrt(n) == SqrtSearch(n, 0, 46340)

\* Math.sin of an angle in mrad, in 1/Scale (Bhaskara's rational form)
SinHalf(x) ==
    LET p == x * (Pi - x)
    IN  Min(Scale, (16 * p) \div ((5 * Pi * Pi - 4 * p) \div Scale))

Sin(a) ==
    LET x == a % TwoPi
    IN  IF x <= Pi THEN SinHalf(x) ELSE -SinHalf(x - Pi)

Cos(a) == Sin(a + HalfPi)

\* atan(a/b) in mrad for 0 <= a <= b, b > 0
AtanRatio(a, b) ==
    LET t == (a * Scale) \div b
    IN  (t * (Pi \div 4)) \div Scale + (273 * t * (Scale - t)) \div (Scale * Scale)

\* atan2(a, b) in mrad for a >= 0, b >= 0, not both 0: in [0, HalfPi]
AtanQuadrant(a, b) ==
    IF a <= b THEN AtanRatio(a, b) ELSE HalfPi - AtanRatio(b, a)


\* Mutation: atan2(dx, dz), the signs of the two arguments dropped
DirectionToYaw_NoSigns(dx, dz) ==
    IF dx = 0 THEN (IF dz > 0 THEN 0 ELSE -Pi)
    ELSE IF dx > 0
         THEN (IF dz > 0 THEN AtanQuadrant(dx, dz)
               ELSE IF dz = 0 THEN HalfPi
               ELSE Pi - AtanQuadrant(dx, -dz))
         ELSE (IF dz > 0 THEN -AtanQuadrant(-dx, dz)
               ELSE IF dz = 0 THEN -HalfPi
               ELSE -(Pi - AtanQuadrant(-dx, -dz)))

\* Math.atan2(-dx, -dz): the yaw of a direction.  A zero dx is +0 in the
\* code (a difference of equal doubles), so that -dx is -0 and atan2 yields
\* -0 in front of the camera and -pi behind it or for the zero vector.
DirectionToYaw(dx, dz) ==
    LET a == -dx
        b == -dz
    IN  IF a = 0 THEN (IF b > 0 THEN 0 ELSE -Pi)
        ELSE IF a > 0
             THEN (IF b > 0 THEN AtanQuadrant(a, b)
                   ELSE IF b = 0 THEN HalfPi
                   ELSE Pi - AtanQuadrant(a, -b))
             ELSE (IF b > 0 THEN -AtanQuadrant(-a, b)
                   ELSE IF b = 0 THEN -HalfPi
                   ELSE -(Pi - AtanQuadrant(-a, -b)))

\* Math.atan2(dy, xzLength) with xzLength >= 0: the pitch of a direction
DirectionToPitch(dy, xzLength) ==
    IF dy = 0 THEN 0
    ELSE IF xzLength = 0 THEN (IF dy > 0 THEN HalfPi ELSE -HalfPi)
    ELSE IF dy > 0 THEN AtanQuadrant(dy, xzLength)
    ELSE -AtanQuadrant(-dy, xzLength)

\* An angle brought into (-pi, pi], the range of Math.atan2
NormalizeAngle(a) ==
    LET x == a % TwoPi
    IN  IF x > Pi THEN x - TwoPi ELSE x

(***************************************************************************)
(* Vectors (THREE.Vector3), lengths in 1/10 mm; geometry that squares a    *)
(* length is done in centimetres to stay inside 32 bits.                    *)
(***************************************************************************)
Vec(x, y, z) == [x |-> x, y |-> y, z |-> z]

\* a point given in decimetres
Point(x, y, z) == Vec((x * Metre) \div 10, (y * Metre) \div 10, (z * Metre) \div 10)

Centimetres(len) == Div(len * 100, Metre)

\* subVectors(a, b), in centimetres
SubVectors(a, b) ==
    Vec(Centimetres(a.x - b.x), Centimetres(a.y - b.y), Centimetres(a.z - b.z))

LengthSq(d) == d.x * d.x + d.y * d.y + d.z * d.z

\* Vector3.normalize(): components in 1/Scale; the zero vector stays zero
Normalized(d) ==
    LET len == Sqrt(LengthSq(d))
    IN  IF len = 0 THEN Vec(0, 0, 0)
        ELSE Vec(Div(d.x * Scale, len), Div(d.y * Scale, len), Div(d.z * Scale, len))

\* The camera quaternion is kept as the yaw and pitch it was composed from
\* (yaw about world up, then pitch about the local right axis).
Quaternion(yaw, pitch) == [yaw |-> yaw, pitch |-> pitch]

\* new Vector3(0, 0, -1).applyQuaternion(q), components in 1/Scale
Forward(q) ==
    Vec(Div(-Sin(q.yaw) * Cos(q.pitch), Scale),
        Sin(q.pitch),
        Div(-Cos(q.yaw) * Cos(q.pitch), Scale))

\* Vector3.dot of two unit vectors in 1/Scale
Dot(a, b) == Div(a.x * b.x + a.y * b.y + a.z * b.z, Scale)

(***************************************************************************)
(* Settings of the constructor                                             *)
(***************************************************************************)
\* moveSpeed 0.04 and sprintSpeed 0.06, in 1/Scale
moveSpeed == (4 * Scale) \div 100
sprintSpeed == (6 * Scale) \div 100

idleThreshold == 3000
transitionDuration == 800
tourDuration == 150
scanInterval == 2000

\* Math.PI/2 - 0.05, the pitch clamp of the mousemove listener
PitchLimit == HalfPi - 50

(***************************************************************************)
(* Easing                                                                  *)
(***************************************************************************)
\* Easing.easeInOutCubic(t), t and the result in 1/Scale
easeInOutCubic(t) ==
    IF 2 * t < Scale
    THEN DivUp(4 * t * t * t, Scale * Scale)
    ELSE Scale - Div((2 * Scale - 2 * t) * (2 * Scale - 2 * t) * (2 * Scale - 2 * t),
                     2 * Scale * Scale)

\* easeOutQuint(t) = 1 - (1 - t)^5; the power is rounded up, so that the
\* result is 1 only at t = 1
easeOutQuint(t) ==
    LET u  == Scale - t
        u2 == DivUp(u * u, Scale)
        u4 == DivUp(u2 * u2, Scale)
    IN  Scale - DivUp(u4 * u, Scale)

(***************************************************************************)
(* The controller's methods.  s is the controller (this); t is Date.now(). *)
(* s.log lists what the running handler has done to its collaborators      *)
(* (callbacks, predicate) and which sub-steps it ran.                       *)
(***************************************************************************)
Logged(s, entry) == [s EXCEPT !.log = Append(@, entry)]

applyOrientationToCamera(s) ==
    [s EXCEPT !.camera.quaternion = Quaternion(s.yaw, s.pitch)]

\* The yaw and pitch read back from the camera's forward direction
\* (initOrientation, startTransition): atan2 returns the yaw in (-pi, pi].
QuaternionToYaw(q) == NormalizeAngle(q.yaw)

QuaternionToPitch(q) == q.pitch

\* initOrientation and startTransition(true) computed step by step: the
\* forward direction of the camera, then atan2 of its components
readOrientation(q) ==
    LET direction == Forward(q)
        xzLength  == Sqrt(direction.z * direction.z + direction.x * direction.x)
    IN  [yaw   |-> DirectionToYaw(direction.x, direction.z),
         pitch |-> DirectionToPitch(direction.y, xzLength)]

\* Mutation: startTransition without its first line
startTransition_Unguarded(s, toNatural, t) ==
    LET s1 == [Logged(s, <<"startTransition", toNatural>>) EXCEPT
                  !.inTransition = TRUE,
                  !.transitionStartTime = t,
                  !.isNaturalMode = toNatural]
    IN  IF toNatural
        THEN [s1 EXCEPT !.yaw = QuaternionToYaw(s.camera.quaternion),
                        !.pitch = QuaternionToPitch(s.camera.quaternion)]
        ELSE s1

startTransition(s, toNatural, t) ==
    IF s.inTransition THEN s
    ELSE LET s1 == [Logged(s, <<"startTransition", toNatural>>) EXCEPT
                       !.inTransition = TRUE,
                       !.transitionStartTime = t,
                       !.isNaturalMode = toNatural]
         IN  IF toNatural
             THEN [s1 EXCEPT !.yaw = QuaternionToYaw(s.camera.quaternion),
                             !.pitch = QuaternionToPitch(s.camera.quaternion)]
             ELSE s1

\* Mutation: activity turns a running transition around
registerActivity_Interrupts(s, t) ==
    LET s1 == [s EXCEPT !.lastActiveTime = t]
    IN  IF s1.isNaturalMode
        THEN startTransition_Unguarded([s1 EXCEPT !.userTriggeredBlur = TRUE], FALSE, t)
        ELSE s1

\* Mutation: activity starts the transition to manual mode from any mode
registerActivity_AnyMode(s, t) ==
    LET s1 == [s EXCEPT !.lastActiveTime = t]
    IN  IF ~s1.inTransition
        THEN startTransition([s1 EXCEPT !.userTriggeredBlur = TRUE], FALSE, t)
        ELSE s1

registerActivity(s, t) ==
    LET s1 == [s EXCEPT !.lastActiveTime = t]
    IN  IF s1.isNaturalMode /\ ~s1.inTransition
        THEN startTransition([s1 EXCEPT !.userTriggeredBlur = TRUE], FALSE, t)
        ELSE s1

\* Mutation: the transition is declared over at half its duration, without
\* the closing assignment of the intensity
updateTransition_EndsHalfway(s, t) ==
    IF ~s.inTransition THEN s
    ELSE LET elapsed  == t - s.transitionStartTime
             progress == Min(Scale, (elapsed * Scale) \div transitionDuration)
             s1 == [Logged(s, <<"updateTransition">>) EXCEPT !.naturalIntensity =
                       IF s.isNaturalMode THEN easeInOutCubic(progress)
                       ELSE Scale - (progress * progress) \div Scale]
         IN  IF 2 * progress >= Scale
             THEN [s1 EXCEPT !.inTransition = FALSE]
             ELSE s1

\* Mutation: updateTransition without its closing block
updateTransition_NeverEnds(s, t) ==
    IF ~s.inTransition THEN s
    ELSE LET elapsed  == t - s.transitionStartTime
             progress == Min(Scale, (elapsed * Scale) \div transitionDuration)
         IN  [Logged(s, <<"updateTransition">>) EXCEPT !.naturalIntensity =
                 IF s.isNaturalMode THEN easeInOutCubic(progress)
                 ELSE Scale - (progress * progress) \div Scale]

updateTransition(s, t) ==
    IF ~s.inTransition THEN s
    ELSE LET elapsed  == t - s.transitionStartTime
             progress == Min(Scale, (elapsed * Scale) \div transitionDuration)
             s1 == [Logged(s, <<"updateTransition">>) EXCEPT !.naturalIntensity =
                       IF s.isNaturalMode THEN easeInOutCubic(progress)
                       ELSE Scale - (progress * progress) \div Scale]
         IN  IF progress >= Scale
             THEN [s1 EXCEPT !.inTransition = FALSE,
                             !.naturalIntensity = IF s.isNaturalMode THEN Scale ELSE 0]
             ELSE s1

\* Mutation: applyNaturalMovement without its first line
applyNaturalMovement_NoSkip(s, delta) ==
    LET bp0 == s.breathePhase + (delta * 3) \div 10
        wp0 == s.wigglePhase + (delta * 2) \div 10
        bp  == IF bp0 > TwoPi THEN bp0 - TwoPi ELSE bp0
        wp  == IF wp0 > TwoPi THEN wp0 - TwoPi ELSE wp0
        intensity == s.naturalIntensity
        breathe == Div(Sin(bp) * 8 * intensity, Scale * Scale)
        wiggleX == Div(Sin(wp) * 15 * intensity, Scale * Scale)
        wiggleY == Div(Cos((wp * 13) \div 10) * 105 * intensity, 10 * Scale * Scale)
        rise == DivUp(Sin(bp) * intensity * (Metre \div 2500), Scale * Scale)
    IN  [Logged(s, <<"applyNaturalMovement">>) EXCEPT
            !.breathePhase = bp,
            !.wigglePhase = wp,
            !.camera.quaternion =
                Quaternion(s.yaw + wiggleX, s.pitch + wiggleY + breathe),
            !.camera.position.y = @ + rise]

\* delta is in ms here: the phase rates 0.3 and 0.2 rad/s are 3/10 and 2/10 mrad/ms
applyNaturalMovement(s, delta) ==
    IF s.naturalIntensity <= 0 THEN s
    ELSE LET bp0 == s.breathePhase + (delta * 3) \div 10
             wp0 == s.wigglePhase + (delta * 2) \div 10
             bp  == IF bp0 > TwoPi THEN bp0 - TwoPi ELSE bp0
             wp  == IF wp0 > TwoPi THEN wp0 - TwoPi ELSE wp0
             intensity == s.naturalIntensity
             \* offsets in mrad: breatheAmount 0.008, wiggleAmount 0.015
             breathe == Div(Sin(bp) * 8 * intensity, Scale * Scale)
             wiggleX == Div(Sin(wp) * 15 * intensity, Scale * Scale)
             wiggleY == Div(Cos((wp * 13) \div 10) * 105 * intensity, 10 * Scale * Scale)
             \* breathe * 0.05 in lengths: sin * intensity * 0.0004 m
             rise == DivUp(Sin(bp) * intensity * (Metre \div 2500), Scale * Scale)
         IN  [Logged(s, <<"applyNaturalMovement">>) EXCEPT
                 !.breathePhase = bp,
                 !.wigglePhase = wp,
                 !.camera.quaternion =
                     Quaternion(s.yaw + wiggleX, s.pitch + wiggleY + breathe),
                 !.camera.position.y = @ + rise]

\* Mutation: the yaw difference is taken as it is, without the wraparound
updateLookAnimation_NoWrap(s, t) ==
    IF ~s.lookAnimation.active THEN s
    ELSE LET a == s.lookAnimation
             elapsed  == t - a.startTime
             progress == Min(Scale, (elapsed * Scale) \div a.duration)
             tt == easeOutQuint(progress)
             yawDiff == a.targetYaw - a.startYaw
             s1 == IF progress >= Scale
                   THEN [s EXCEPT !.yaw = a.targetYaw,
                                  !.pitch = a.targetPitch,
                                  !.lookAnimation.active = FALSE]
                   ELSE [s EXCEPT !.yaw = a.startYaw + Div(yawDiff * tt, Scale),
                                  !.pitch = a.startPitch
                                     + Div((a.targetPitch - a.startPitch) * tt, Scale)]
             interpolated == IF progress >= Scale THEN 0 ELSE yawDiff
         IN  applyOrientationToCamera(
                 Logged(s1, <<"updateLookAnimation", interpolated, progress >= Scale>>))

\* Mutation: updateLookAnimation without its "animation complete" branch
updateLookAnimation_NeverCompletes(s, t) ==
    IF ~s.lookAnimation.active THEN s
    ELSE LET a == s.lookAnimation
             elapsed  == t - a.startTime
             progress == Min(Scale, (elapsed * Scale) \div a.duration)
             tt == easeOutQuint(progress)
             d0 == a.targetYaw - a.startYaw
             d1 == IF d0 > Pi THEN d0 - TwoPi ELSE d0
             yawDiff == IF d1 < -Pi THEN d1 + TwoPi ELSE d1
             s1 == [s EXCEPT !.yaw = a.startYaw + Div(yawDiff * tt, Scale),
                             !.pitch = a.startPitch
                                + Div((a.targetPitch - a.startPitch) * tt, Scale)]
         IN  applyOrientationToCamera(
                 Logged(s1, <<"updateLookAnimation", yawDiff, FALSE>>))

updateLookAnimation(s, t) ==
    IF ~s.lookAnimation.active THEN s
    ELSE LET a == s.lookAnimation
             elapsed  == t - a.startTime
             progress == Min(Scale, (elapsed * Scale) \div a.duration)
             tt == easeOutQuint(progress)
             d0 == a.targetYaw - a.startYaw
             d1 == IF d0 > Pi THEN d0 - TwoPi ELSE d0
             yawDiff == IF d1 < -Pi THEN d1 + TwoPi ELSE d1
             s1 == IF progress >= Scale
                   THEN [s EXCEPT !.yaw = a.targetYaw,
                                  !.pitch = a.targetPitch,
                                  !.lookAnimation.active = FALSE]
                   ELSE [s EXCEPT !.yaw = a.startYaw + Div(yawDiff * tt, Scale),
                                  !.pitch = a.startPitch
                                     + Div((a.targetPitch - a.startPitch) * tt, Scale)]
             \* logged: the yaw difference that was interpolated (0 on completion)
             \* and whether the animation was completed
             interpolated == IF progress >= Scale THEN 0 ELSE yawDiff
         IN  applyOrientationToCamera(
                 Logged(s1, <<"updateLookAnimation", interpolated, progress >= Scale>>))

\* Mutation: an animation in flight is not replaced
smoothLookAt_KeepsInFlight(s, target, duration, t) ==
    LET direction == SubVectors(target, s.camera.position)
        xzLength  == Sqrt(direction.x * direction.x + direction.z * direction.z)
    IN  IF s.lookAnimation.active
        THEN Logged(s, <<"smoothLookAt", target, duration>>)
        ELSE [Logged(s, <<"smoothLookAt", target, duration>>) EXCEPT !.lookAnimation =
                [startTime   |-> t,
                 duration    |-> duration,
                 startYaw    |-> s.yaw,
                 startPitch  |-> s.pitch,
                 targetYaw   |-> DirectionToYaw(direction.x, direction.z),
                 targetPitch |-> DirectionToPitch(direction.y, xzLength),
                 active      |-> TRUE]]

\* duration in ms (the code takes seconds and multiplies by 1000)
smoothLookAt(s, target, duration, t) ==
    LET direction == SubVectors(target, s.camera.position)
        xzLength  == Sqrt(direction.x * direction.x + direction.z * direction.z)
    IN  [Logged(s, <<"smoothLookAt", target, duration>>) EXCEPT !.lookAnimation =
            [startTime   |-> t,
             duration    |-> duration,
             startYaw    |-> s.yaw,
             startPitch  |-> s.pitch,
             targetYaw   |-> DirectionToYaw(direction.x, direction.z),
             targetPitch |-> DirectionToPitch(direction.y, xzLength),
             active      |-> TRUE]]

startIntroAnimation(s, t) ==
    [s EXCEPT !.tourStartTime = t, !.isTourMode = TRUE, !.tourProgress = 0]

lookAt(s, target) ==
    LET direction == SubVectors(target, s.camera.position)
        xzLength  == Sqrt(direction.x * direction.x + direction.z * direction.z)
    IN  applyOrientationToCamera(
            [s EXCEPT !.yaw = DirectionToYaw(direction.x, direction.z),
                      !.pitch = DirectionToPitch(direction.y, xzLength)])

Lerp(a, b, f) == a + Div((b - a) * f, Scale)

\* Mutation: the curve stops at the last but one point
getPointAt_StopsShort(path, u) ==
    LET n == Len(path)
        i == (u * (n - 1)) \div Scale
        f == (u * (n - 1)) % Scale
    IN  IF i >= n - 1 THEN path[n - 1]
        ELSE Vec(Lerp(path[i + 1].x, path[i + 2].x, f),
                 Lerp(path[i + 1].y, path[i + 2].y, f),
                 Lerp(path[i + 1].z, path[i + 2].z, f))

\* tourPath.getPointAt(u): the curve through the path points, sampled on the
\* polyline of its control points (uniform in the segment index); it passes
\* through the first point at u = 0 and the last at u = 1 as the spline does.
getPointAt(path, u) ==
    LET n == Len(path)
        i == (u * (n - 1)) \div Scale
        f == (u * (n - 1)) % Scale
    IN  IF i >= n - 1 THEN path[n]
        ELSE Vec(Lerp(path[i + 1].x, path[i + 2].x, f),
                 Lerp(path[i + 1].y, path[i + 2].y, f),
                 Lerp(path[i + 1].z, path[i + 2].z, f))

\* Mutation: updateTour without its last statement
updateTour_NeverEnds(s, delta, t) ==
    IF ~s.isTourMode \/ s.tourPath = <<>> THEN s
    ELSE LET elapsedTime  == t - s.tourStartTime
             rawProgress  == Min((elapsedTime * Scale) \div tourDuration, Scale)
             tourProgress == easeInOutCubic(rawProgress)
             lookIndex == (tourProgress * Len(s.tourLookPoints)) \div Scale
             lookPoint == s.tourLookPoints[Min(lookIndex, Len(s.tourLookPoints) - 1) + 1]
             s1 == [Logged(s, <<"updateTour", lookIndex>>) EXCEPT
                       !.tourProgress = tourProgress,
                       !.camera.position = getPointAt(s.tourPath, tourProgress)]
         IN  lookAt(s1, lookPoint)

\* Mutation: the look target glides from one look point to the next
updateTour_BlendsLookPoints(s, delta, t) ==
    IF ~s.isTourMode \/ s.tourPath = <<>> THEN s
    ELSE LET elapsedTime  == t - s.tourStartTime
             rawProgress  == Min((elapsedTime * Scale) \div tourDuration, Scale)
             tourProgress == easeInOutCubic(rawProgress)
             lookIndex == (tourProgress * Len(s.tourLookPoints)) \div Scale
             fraction  == (tourProgress * Len(s.tourLookPoints)) % Scale
             from == s.tourLookPoints[Min(lookIndex, Len(s.tourLookPoints) - 1) + 1]
             to   == s.tourLookPoints[Min(lookIndex + 1, Len(s.tourLookPoints) - 1) + 1]
             lookPoint == Vec(Lerp(from.x, to.x, fraction),
                              Lerp(from.y, to.y, fraction),
                              Lerp(from.z, to.z, fraction))
             s1 == [Logged(s, <<"updateTour", lookIndex>>) EXCEPT
                       !.tourProgress = tourProgress,
                       !.camera.position = getPointAt(s.tourPath, tourProgress)]
             s2 == lookAt(s1, lookPoint)
         IN  IF rawProgress >= Scale THEN [s2 EXCEPT !.isTourMode = FALSE] ELSE s2

updateTour(s, delta, t) ==
    IF ~s.isTourMode \/ s.tourPath = <<>> THEN s
    ELSE LET elapsedTime  == t - s.tourStartTime
             rawProgress  == Min((elapsedTime * Scale) \div tourDuration, Scale)
             tourProgress == easeInOutCubic(rawProgress)
             lookIndex == (tourProgress * Len(s.tourLookPoints)) \div Scale
             lookPoint == s.tourLookPoints[Min(lookIndex, Len(s.tourLookPoints) - 1) + 1]
             s1 == [Logged(s, <<"updateTour", lookIndex>>) EXCEPT
                       !.tourProgress = tourProgress,
                       !.camera.position = getPointAt(s.tourPath, tourProgress)]
             s2 == lookAt(s1, lookPoint)
         IN  IF rawProgress >= Scale THEN [s2 EXCEPT !.isTourMode = FALSE] ELSE s2

(***************************************************************************)
(* Artwork focus.  An artwork is [position, viewingDistance]; a            *)
(* viewingDistance of 0 stands for a missing (falsy) userData value.        *)
(* focusedArtwork is an index into the artwork list, 0 for null;            *)
(* lookAwayPoint is <<>> for null and <<point>> otherwise.                  *)
(***************************************************************************)
\* A vector on a grid ten times coarser, where the square of a dot product
\* fits 32 bits: a forward vector in 1/100, an offset in decimetres.
Coarse(v) == Vec(Div(v.x, 10), Div(v.y, 10), Div(v.z, 10))

\* normalize(art.position - camera.position)
ArtworkDir(position, art) == Normalized(SubVectors(art.position, position))

\* forward.dot(artworkDir) < 0.5, decided exactly on the two directions:
\* the dot product of their unit vectors is f.a / (|f| |a|), so it is below
\* 1/2 when f.a <= 0 or (2 f.a)^2 < |f|^2 |a|^2.  offset is the unnormalized
\* direction art.position - camera.position, in cm.
DotBelowHalf(forward, offset) ==
    LET f  == Coarse(forward)
        a  == Coarse(offset)
        fa == f.x * a.x + f.y * a.y + f.z * a.z
    IN  fa <= 0 \/ (4 * fa * fa) \div LengthSq(f) < LengthSq(a)

\* position.distanceTo(art.position), squared, in cm^2
DistanceSq(position, art) == LengthSq(SubVectors(art.position, position))

\* artwork.userData?.viewingDistance || 5, in cm
ViewDist(art) ==
    IF art.viewingDistance = 0 THEN 500 ELSE Centimetres(art.viewingDistance)

\* Mutation: the view test without the distance cutoff
isArtworkInView_AnyDistance(forward, position, art) ==
    ~DotBelowHalf(forward, SubVectors(art.position, position))

\* forward is the camera's forward direction, position the camera's position
isArtworkInView(forward, position, art) ==
    IF DotBelowHalf(forward, SubVectors(art.position, position)) THEN FALSE
    ELSE IF DistanceSq(position, art) > (ViewDist(art) * 2) * (ViewDist(art) * 2) THEN FALSE
    ELSE TRUE

\* centeredness * 3 - distance * 0.1, in 1/Scale (distance in metres)
Score(forward, position, art) ==
    Dot(forward, ArtworkDir(position, art)) * 3
        - (Sqrt(DistanceSq(position, art)) * Scale) \div 1000

RECURSIVE ScanFrom(_, _, _, _, _, _)
ScanFrom(forward, position, artworks, i, bestArtwork, bestScore) ==
    IF i > Len(artworks) THEN bestArtwork
    ELSE IF ~isArtworkInView(forward, position, artworks[i])
         THEN ScanFrom(forward, position, artworks, i + 1, bestArtwork, bestScore)
    ELSE IF Score(forward, position, artworks[i]) > bestScore
         THEN ScanFrom(forward, position, artworks, i + 1, i,
                       Score(forward, position, artworks[i]))
    ELSE ScanFrom(forward, position, artworks, i + 1, bestArtwork, bestScore)

\* the index of the best artwork in view, 0 for null; bestScore starts at -1
findArtworkInView(forward, position, artworks) ==
    IF Len(artworks) = 0 THEN 0
    ELSE ScanFrom(forward, position, artworks, 1, 0, -Scale)

\* Mutation: the first look-away may come as late as the later ones
firstLookAway_UpToSeven(r) == 3000 + (r * 4000) \div Scale

\* this.lookAwayTimer = 4 + Math.random() * 3, in ms
firstLookAway(r) == 4000 + (r * 3000) \div Scale

\* Mutation: a scan is already due when the interval has just passed
scanDue_AtInterval(s, t) == t - s.lastScanTime >= scanInterval

\* if (timeSinceLastScan > this.scanInterval)
scanDue(s, t) == t - s.lastScanTime > scanInterval

\* Mutation: the focus is never taken as held
hasFocusedArtwork_Never(s) == FALSE

\* if (this.focusedArtwork): an artwork is focused, so the focus is only
\* maintained and no new one is searched
hasFocusedArtwork(s) == s.focusedArtwork # 0

\* Mutation: a scan that finds nothing lets the camera look around the room
scanForArtwork_LooksAround(s, artworks, rnd, t) ==
    IF scanDue(s, t)
    THEN LET bestArtwork == findArtworkInView(Forward(s.camera.quaternion),
                                              s.camera.position, artworks)
             s1 == [Logged(s, <<"findArtworkInView", bestArtwork>>) EXCEPT !.lastScanTime = t]
         IN  IF bestArtwork # 0
             THEN smoothLookAt(
                      [Logged(s1, <<"onFocusArtwork", bestArtwork>>) EXCEPT
                          !.focusedArtwork = bestArtwork,
                          !.userTriggeredBlur = FALSE,
                          !.lookAwayTimer = firstLookAway(rnd[1]),
                          !.lookBackTimer = 0],
                      artworks[bestArtwork].position, 4000, t)
             ELSE smoothLookAt(s1, Point(0, 16, 0), 3000, t)
    ELSE s

\* The end of updateArtworkFocus: the search for an artwork to focus, run
\* when none is focused
scanForArtwork(s, artworks, rnd, t) ==
    IF scanDue(s, t)
    THEN LET bestArtwork == findArtworkInView(Forward(s.camera.quaternion),
                                              s.camera.position, artworks)
             s1 == [Logged(s, <<"findArtworkInView", bestArtwork>>) EXCEPT !.lastScanTime = t]
         IN  IF bestArtwork # 0
             THEN smoothLookAt(
                      [Logged(s1, <<"onFocusArtwork", bestArtwork>>) EXCEPT
                          !.focusedArtwork = bestArtwork,
                          !.userTriggeredBlur = FALSE,
                          !.lookAwayTimer = firstLookAway(rnd[1]),
                          !.lookBackTimer = 0],
                      artworks[bestArtwork].position, 4000, t)
             ELSE s1
    ELSE s

\* Mutation: the look-back may be due at once
lookBackDelay_Immediate(r) == (r * 1500) \div Scale

\* this.lookBackTimer = 1 + Math.random() * 1.5, in ms
lookBackDelay(r) == 1000 + (r * 1500) \div Scale

\* rnd[1..4] are the Math.random() draws of the frame, in 1/Scale
updateArtworkFocus(s, delta, artworks, rnd, t) ==
    IF ~s.isNaturalMode
    THEN IF s.focusedArtwork # 0
         THEN [(IF s.userTriggeredBlur
                THEN Logged(s, <<"onBlurArtwork", s.focusedArtwork>>) ELSE s) EXCEPT
                  !.focusedArtwork = 0,
                  !.lookAwayTimer = 0,
                  !.lookBackTimer = 0,
                  !.lookAwayPoint = <<>>,
                  !.userTriggeredBlur = FALSE]
         ELSE s
    ELSE IF hasFocusedArtwork(s)
    THEN LET s1 == [s EXCEPT !.lookAwayTimer = @ - delta]
             artwork == artworks[s.focusedArtwork]
         IN  IF s1.lookAwayTimer <= 0 /\ s1.lookBackTimer <= 0
             THEN LET lookAwayPoint ==
                          Vec(artwork.position.x + Div((rnd[1] - Scale \div 2) * 7 * Metre, 10 * Scale),
                              artwork.position.y + Div((rnd[2] - Scale \div 2) * 3 * Metre, 10 * Scale),
                              artwork.position.z + Div((rnd[3] - Scale \div 2) * 2 * Metre, 10 * Scale))
                  IN  smoothLookAt(
                          [s1 EXCEPT !.lookAwayPoint = <<lookAwayPoint>>,
                                     !.lookBackTimer = lookBackDelay(rnd[4])],
                          lookAwayPoint, 3000, t)
             ELSE IF s1.lookBackTimer > 0
             THEN LET s2 == [s1 EXCEPT !.lookBackTimer = @ - delta]
                  IN  IF s2.lookBackTimer <= 0
                      THEN smoothLookAt(
                               [s2 EXCEPT !.lookAwayTimer = 3000 + (rnd[1] * 4000) \div Scale],
                               artwork.position, 3000, t)
                      ELSE s2
             ELSE s1
    ELSE scanForArtwork(s, artworks, rnd, t)

(***************************************************************************)
(* Keyboard movement                                                       *)
(***************************************************************************)
KeyDirX(keys) == (IF "d" \in keys THEN 1 ELSE 0) - (IF "a" \in keys THEN 1 ELSE 0)

KeyDirZ(keys) == (IF "s" \in keys THEN 1 ELSE 0) - (IF "w" \in keys THEN 1 ELSE 0)

\* 1/sqrt(2) in 1/Scale, the component of a normalized diagonal
Diagonal == (Scale * 7071) \div 10000

\* Mutation: the key direction is used as it is, without normalize()
NormalizedKeyDir_AsIs(dx, dz) == <<dx * Scale, dz * Scale>>

\* direction.normalize(), components in 1/Scale
NormalizedKeyDir(dx, dz) ==
    IF dx # 0 /\ dz # 0 THEN <<dx * Diagonal, dz * Diagonal>>
    ELSE <<dx * Scale, dz * Scale>>

\* direction.applyQuaternion(rotation by yaw about Y), components in 1/Scale
RotateByYaw(dir, yaw) ==
    <<Div(dir[1] * Cos(yaw) + dir[2] * Sin(yaw), Scale),
      Div(dir[2] * Cos(yaw) - dir[1] * Sin(yaw), Scale)>>

\* Mutation: a collision reverts x only
positionAfterCheck_KeepsZ(originalPos, proposed, collides) ==
    IF collides THEN [proposed EXCEPT !.x = originalPos.x] ELSE proposed

\* if (collisionCheck(position, 0.5)) position.copy(originalPos):
\* the camera position after the check, proposed being the moved position
positionAfterCheck(originalPos, proposed, collides) ==
    IF collides THEN originalPos ELSE proposed

\* Mutation: a step stopped by a collision does not count as activity
handleMovement_IdleOnCollision(s, delta, collides, t) ==
    IF s.isTourMode \/ (~s.pointerLocked /\ ~s.isNaturalMode) THEN s
    ELSE LET currentSpeed == IF "shift" \in s.keys THEN sprintSpeed ELSE moveSpeed
             stepDistance == (currentSpeed * delta * (Metre \div 10)) \div Scale
             dx == KeyDirX(s.keys)
             dz == KeyDirZ(s.keys)
         IN  IF dx = 0 /\ dz = 0 THEN s
             ELSE LET direction == RotateByYaw(NormalizedKeyDir(dx, dz), s.yaw)
                      originalPos == s.camera.position
                      proposed == [originalPos EXCEPT
                                      !.x = @ + Div(direction[1] * stepDistance, Scale),
                                      !.z = @ + Div(direction[2] * stepDistance, Scale)]
                      s1 == Logged(s, <<"collisionCheck", proposed, collides>>)
                      s2 == [s1 EXCEPT !.camera.position =
                                         positionAfterCheck(originalPos, proposed, collides)]
                  IN  IF collides THEN s2 ELSE registerActivity(s2, t)

\* Mutation: the step follows the view direction, pitch included
handleMovement_AlongView(s, delta, collides, t) ==
    IF s.isTourMode \/ (~s.pointerLocked /\ ~s.isNaturalMode) THEN s
    ELSE LET currentSpeed == IF "shift" \in s.keys THEN sprintSpeed ELSE moveSpeed
             stepDistance == (currentSpeed * delta * (Metre \div 10)) \div Scale
             dx == KeyDirX(s.keys)
             dz == KeyDirZ(s.keys)
         IN  IF dx = 0 /\ dz = 0 THEN s
             ELSE LET flat == RotateByYaw(NormalizedKeyDir(dx, dz), s.yaw)
                      direction == <<Div(flat[1] * Cos(s.pitch), Scale),
                                     Div(flat[2] * Cos(s.pitch), Scale)>>
                      originalPos == s.camera.position
                      proposed == [originalPos EXCEPT
                                      !.x = @ + Div(direction[1] * stepDistance, Scale),
                                      !.y = @ + Div(Sin(s.pitch) * stepDistance, Scale),
                                      !.z = @ + Div(direction[2] * stepDistance, Scale)]
                      s1 == Logged(s, <<"collisionCheck", proposed, collides>>)
                      s2 == [s1 EXCEPT !.camera.position =
                                         positionAfterCheck(originalPos, proposed, collides)]
                  IN  registerActivity(s2, t)

\* collides is the answer of collisionCheck for the proposed position
handleMovement(s, delta, collides, t) ==
    IF s.isTourMode \/ (~s.pointerLocked /\ ~s.isNaturalMode) THEN s
    ELSE LET currentSpeed == IF "shift" \in s.keys THEN sprintSpeed ELSE moveSpeed
             \* speed * delta(s) * 100 metres, delta in ms: speed/Scale * delta/10 m
             stepDistance == (currentSpeed * delta * (Metre \div 10)) \div Scale
             dx == KeyDirX(s.keys)
             dz == KeyDirZ(s.keys)
         IN  IF dx = 0 /\ dz = 0 THEN s
             ELSE LET direction == RotateByYaw(NormalizedKeyDir(dx, dz), s.yaw)
                      originalPos == s.camera.position
                      proposed == [originalPos EXCEPT
                                      !.x = @ + Div(direction[1] * stepDistance, Scale),
                                      !.z = @ + Div(direction[2] * stepDistance, Scale)]
                      s1 == Logged(s, <<"collisionCheck", proposed, collides>>)
                      s2 == [s1 EXCEPT !.camera.position =
                                         positionAfterCheck(originalPos, proposed, collides)]
                  IN  registerActivity(s2, t)

(***************************************************************************)
(* The frame                                                               *)
(***************************************************************************)
\* Mutation: idle from the threshold on
isIdle_AtThreshold(s, t) == (t - s.lastActiveTime) >= idleThreshold

isIdle(s, t) == (t - s.lastActiveTime) > idleThreshold

\* Mutation: a tour frame goes on into the rest of update()
update_TourFallsThrough(s, delta, artworks, collides, rnd, t) ==
    LET s0 == IF s.isTourMode THEN updateTour(s, delta, t) ELSE s
        s1 == IF isIdle(s0, t) /\ ~s0.isNaturalMode /\ ~s0.inTransition
              THEN startTransition(s0, TRUE, t) ELSE s0
        s2 == updateTransition(s1, t)
        s3 == updateLookAnimation(s2, t)
        s4 == IF s3.isNaturalMode \/ s3.naturalIntensity > 0
              THEN applyNaturalMovement(s3, delta)
              ELSE applyOrientationToCamera(s3)
        s5 == IF s4.isNaturalMode
              THEN updateArtworkFocus(s4, delta, artworks, rnd, t)
              ELSE s4
    IN  handleMovement(s5, delta, collides, t)

\* Mutation: a tour frame notifies the blur of the artwork still focused
update_BlursOnTour(s, delta, artworks, collides, rnd, t) ==
    LET idle == isIdle(s, t)
    IN  IF s.isTourMode
        THEN updateTour(IF s.focusedArtwork # 0
                        THEN Logged(s, <<"onBlurArtwork", s.focusedArtwork>>)
                        ELSE s, delta, t)
        ELSE LET s1 == IF idle /\ ~s.isNaturalMode /\ ~s.inTransition
                       THEN startTransition(s, TRUE, t) ELSE s
                 s2 == updateTransition(s1, t)
                 s3 == updateLookAnimation(s2, t)
                 s4 == IF s3.isNaturalMode \/ s3.naturalIntensity > 0
                       THEN applyNaturalMovement(s3, delta)
                       ELSE applyOrientationToCamera(s3)
                 s5 == IF s4.isNaturalMode
                       THEN updateArtworkFocus(s4, delta, artworks, rnd, t)
                       ELSE s4
             IN  handleMovement(s5, delta, collides, t)

update(s, delta, artworks, collides, rnd, t) ==
    LET idle == isIdle(s, t)
    IN  IF s.isTourMode THEN updateTour(s, delta, t)
        ELSE LET s1 == IF idle /\ ~s.isNaturalMode /\ ~s.inTransition
                       THEN startTransition(s, TRUE, t) ELSE s
                 s2 == updateTransition(s1, t)
                 s3 == updateLookAnimation(s2, t)
                 s4 == IF s3.isNaturalMode \/ s3.naturalIntensity > 0
                       THEN applyNaturalMovement(s3, delta)
                       ELSE applyOrientationToCamera(s3)
                 s5 == IF s4.isNaturalMode
                       THEN updateArtworkFocus(s4, delta, artworks, rnd, t)
                       ELSE s4
             IN  handleMovement(s5, delta, collides, t)

(***************************************************************************)
(* The program: the controller, the clock, the artwork list the animation  *)
(* loop passes to update(), and the operation that ran last.                *)
(***************************************************************************)
VARIABLES
    this,       \* the CameraController (with its camera and the handler's log)
    now,        \* Date.now(), ms since the page was opened
    artPieces,  \* the artwork list of the scene
    op,         \* the operation of the last step and its inputs
    nEvents,    \* input events and API calls so far
    hist,       \* what the inputs since the last frame found (history)
    probe       \* inputs and result of a function applied on its own

vars == <<this, now, artPieces, op, nEvents, hist, probe>>

\* Bounds of the model
MaxTime == 13000
MaxEvents == 2

\* Date.now() at construction: only differences of times matter, and every
\* real clock value exceeds scanInterval, so that the first scan is never held back.
StartTime == 5000

\* Frame intervals (clock.getDelta()), ms
FrameDeltas == {500, 3000}

\* Math.random() draws, in 1/Scale
Rand == {0, Scale - 1}

Keys == {"w", "e"}

\* movementX, movementY of a mousemove event, px
MouseDeltas == {<<300, 0>>, <<-4000, 900>>}

\* Initial phases: Math.random() * 2 pi
InitPhases == {<<HalfPi, 4000>>}

\* main.js: the path and look points of the intro tour
cameraPathPoints ==
    <<Point(0, 16, 100), Point(-30, 16, 50), Point(-50, 16, 0),
      Point(0, 16, -30), Point(50, 16, 0), Point(0, 16, 30)>>

lookAtPoints == <<Point(-50, 16, -50), Point(0, 16, -70), Point(50, 16, -50)>>

\* Artwork lists.  The first holds two artworks near the camera's start:
\* one 45 degrees to the right within range, and a nearer one just outside
\* the cone that comes into view once the camera turns.  The second is the
\* list before the artwork has loaded.
Artwork(position, viewingDistance) ==
    [position |-> position, viewingDistance |-> viewingDistance]

ArtLists ==
    { <<Artwork(Point(34, 16, 66), (25 * Metre) \div 10),
        Artwork(Point(9, 16, 95), 0)>>,
      <<>> }

NoHistory == [inputWhileNatural |-> FALSE, blurOwed |-> 0, inputOnFocused |-> 0]

\* The state after new CameraController(camera, domElement) and
\* setupCameraPath(): main.js places the camera at (0, 1.6, 10) looking
\* down -z, so that initOrientation() reads yaw 0 and pitch 0.
InitialController(ph) ==
    [keys |-> {},
     pointerLocked |-> FALSE,
     lastActiveTime |-> StartTime,
     isNaturalMode |-> FALSE,
     naturalIntensity |-> 0,
     inTransition |-> FALSE,
     transitionStartTime |-> 0,
     isTourMode |-> FALSE,
     yaw |-> 0,
     pitch |-> 0,
     breathePhase |-> ph[1],
     wigglePhase |-> ph[2],
     tourPath |-> cameraPathPoints,
     tourLookPoints |-> lookAtPoints,
     tourProgress |-> 0,
     tourStartTime |-> 0,
     focusedArtwork |-> 0,
     lastScanTime |-> 0,
     lookAwayTimer |-> 0,
     lookBackTimer |-> 0,
     lookAwayPoint |-> <<>>,
     userTriggeredBlur |-> FALSE,
     lookAnimation |-> [active |-> FALSE, startTime |-> 0, duration |-> 0,
                        startYaw |-> 0, startPitch |-> 0,
                        targetYaw |-> 0, targetPitch |-> 0],
     camera |-> [position |-> Point(0, 16, 100),
                 quaternion |-> Quaternion(0, 0)],
     log |-> <<>>]

Init ==
    /\ now = StartTime
    /\ artPieces \in ArtLists
    /\ op = <<"new">>
    /\ nEvents = 0
    /\ hist = NoHistory
    /\ probe = <<>>
    /\ \E ph \in InitPhases : this = InitialController(ph)

\* History of the inputs, for stating what a later frame owes them:
\*   inputWhileNatural  a key press or pointer-locked pointer delta arrived
\*                      since the last frame while isNaturalMode was true
\*                      and naturalIntensity > 0
\*   blurOwed           the artwork that was focused when such an input
\*                      turned isNaturalMode false, until onBlurArtwork is
\*                      invoked with it (0: none)
HasLogged(log, name) == \E i \in 1..Len(log) : log[i][1] = name

HasLoggedWith(log, name, arg) ==
    \E i \in 1..Len(log) : log[i][1] = name /\ log[i][2] = arg

AfterInput(before, after) ==
    [inputWhileNatural |->
         hist.inputWhileNatural \/ (before.isNaturalMode /\ before.naturalIntensity > 0),
     blurOwed |->
         IF before.isNaturalMode /\ ~after.isNaturalMode /\ before.focusedArtwork # 0
         THEN before.focusedArtwork ELSE hist.blurOwed,
     \* the artwork that was focused when the user gave input
     inputOnFocused |->
         IF before.focusedArtwork # 0
         THEN before.focusedArtwork ELSE hist.inputOnFocused]

AfterFrame(after) ==
    [inputWhileNatural |-> FALSE,
     blurOwed |-> IF HasLoggedWith(after.log, "onBlurArtwork", hist.blurOwed)
                  THEN 0 ELSE hist.blurOwed,
     \* a newly focused artwork has seen no input yet
     inputOnFocused |-> IF HasLogged(after.log, "onFocusArtwork")
                        THEN 0 ELSE hist.inputOnFocused]

\* The controller as a handler finds it: nothing logged yet
Entry == [this EXCEPT !.log = <<>>]

\* The Math.random() draws a frame can consume: four when a look-away may
\* start, else at most one (the others are fixed, as nothing reads them).
RandomDraws(s, delta) ==
    IF s.focusedArtwork # 0 /\ s.lookAwayTimer - delta <= 0 /\ s.lookBackTimer <= 0
    THEN [1..4 -> Rand]
    ELSE {[i \in 1..4 |-> IF i = 1 THEN r ELSE 0] : r \in Rand}

\* The answers collisionCheck can give: it is only asked when keys move the camera
CollisionAnswers(s) ==
    IF KeyDirX(s.keys) = 0 /\ KeyDirZ(s.keys) = 0 THEN {FALSE} ELSE BOOLEAN

\* requestAnimationFrame -> animate(): update() after delta ms
FrameUntil(limit, delta, collides, rnd) ==
    /\ now + delta <= limit
    /\ now' = now + delta
    /\ this' = update(Entry, delta, artPieces, collides, rnd, now + delta)
    /\ op' = <<"update", delta>>
    /\ hist' = AfterFrame(this')
    /\ UNCHANGED <<artPieces, nEvents, probe>>

Frame(delta, collides, rnd) == FrameUntil(MaxTime, delta, collides, rnd)

\* document 'keydown' (the browser repeats it while the key is held)
KeyDown(key) ==
    /\ nEvents < MaxEvents
    /\ nEvents' = nEvents + 1
    /\ LET s1 == [Entry EXCEPT !.keys = @ \cup {key}]
           s2 == IF s1.focusedArtwork # 0
                 THEN [s1 EXCEPT !.userTriggeredBlur = TRUE] ELSE s1
       IN  this' = registerActivity(s2, now)
    /\ op' = <<"keydown", key>>
    /\ hist' = AfterInput(this, this')
    /\ UNCHANGED <<now, artPieces, probe>>

\* document 'keyup'
KeyUp(key) ==
    /\ nEvents < MaxEvents
    /\ key \in this.keys
    /\ nEvents' = nEvents + 1
    /\ this' = [Entry EXCEPT !.keys = @ \ {key}]
    /\ op' = <<"keyup", key>>
    /\ UNCHANGED <<now, artPieces, hist, probe>>

\* Mutation: the mousemove listener without its first line
MouseMove_IgnoresLock(movementX, movementY) ==
    /\ nEvents < MaxEvents
    /\ nEvents' = nEvents + 1
    /\ LET s1 == IF Entry.isNaturalMode
                 THEN [Entry EXCEPT
                          !.isNaturalMode = FALSE,
                          !.naturalIntensity = 0,
                          !.inTransition = FALSE,
                          !.userTriggeredBlur =
                              IF Entry.focusedArtwork # 0 THEN TRUE ELSE @,
                          !.lookAnimation.active = FALSE,
                          !.focusedArtwork = 0,
                          !.lookAwayTimer = 0,
                          !.lookBackTimer = 0]
                 ELSE Entry
           s2 == [s1 EXCEPT
                     !.yaw = @ - movementX,
                     !.pitch = Max(-PitchLimit, Min(PitchLimit, @ - movementY))]
       IN  this' = registerActivity(applyOrientationToCamera(s2), now)
    /\ op' = <<"mousemove", movementX, movementY>>
    /\ hist' = AfterInput(this, this')
    /\ UNCHANGED <<now, artPieces, probe>>

\* document 'mousemove'
MouseMove(movementX, movementY) ==
    /\ nEvents < MaxEvents
    /\ nEvents' = nEvents + 1
    /\ IF ~this.pointerLocked THEN this' = Entry
       ELSE LET s1 == IF Entry.isNaturalMode
                      THEN [Entry EXCEPT
                               !.isNaturalMode = FALSE,
                               !.naturalIntensity = 0,
                               !.inTransition = FALSE,
                               !.userTriggeredBlur =
                                   IF Entry.focusedArtwork # 0 THEN TRUE ELSE @,
                               !.lookAnimation.active = FALSE,
                               !.focusedArtwork = 0,
                               !.lookAwayTimer = 0,
                               !.lookBackTimer = 0]
                      ELSE Entry
                \* mouseSensitivity 0.001 rad/px is 1 mrad/px
                s2 == [s1 EXCEPT
                          !.yaw = @ - movementX,
                          !.pitch = Max(-PitchLimit, Min(PitchLimit, @ - movementY))]
            IN  this' = registerActivity(applyOrientationToCamera(s2), now)
    /\ op' = <<"mousemove", movementX, movementY>>
    /\ hist' = IF this.pointerLocked THEN AfterInput(this, this') ELSE hist
    /\ UNCHANGED <<now, artPieces, probe>>

\* document 'pointerlockchange'
PointerLockChange ==
    /\ nEvents < MaxEvents
    /\ nEvents' = nEvents + 1
    /\ this' = [Entry EXCEPT !.pointerLocked = ~@]
    /\ op' = <<"pointerlockchange">>
    /\ UNCHANGED <<now, artPieces, hist, probe>>

\* main.js startExperience() -> cameraController.startIntroAnimation()
StartIntroAnimation ==
    /\ nEvents < MaxEvents
    /\ nEvents' = nEvents + 1
    /\ this' = startIntroAnimation(Entry, now)
    /\ op' = <<"startIntroAnimation">>
    /\ UNCHANGED <<now, artPieces, hist, probe>>

Next ==
    \/ \E delta \in FrameDeltas :
         \E collides \in CollisionAnswers(this), rnd \in RandomDraws(this, delta) :
           Frame(delta, collides, rnd)
    \/ \E key \in Keys : KeyDown(key)
    \/ \E key \in Keys : KeyUp(key)
    \/ \E m \in MouseDeltas : MouseMove(m[1], m[2])
    \/ PointerLockChange
    \/ StartIntroAnimation

Spec == Init /\ [][Next]_vars

(***************************************************************************)
(* The controller with its methods open to direct calls: startTransition   *)
(* is a public method, and the handlers only call it when no transition is *)
(* in progress.                                                            *)
(***************************************************************************)
StartTransitionCall(toNatural) ==
    /\ nEvents < MaxEvents
    /\ nEvents' = nEvents + 1
    /\ this' = startTransition(Entry, toNatural, now)
    /\ op' = <<"startTransition", toNatural>>
    /\ UNCHANGED <<now, artPieces, hist, probe>>

NextApi ==
    \/ Next
    \/ \E toNatural \in BOOLEAN : StartTransitionCall(toNatural)

SpecApi == Init /\ [][NextApi]_vars

(***************************************************************************)
(* findArtworkInView on its own: a camera at CameraStart looking along one *)
(* of ViewLooks, and up to two artworks placed at ViewOffsets (decimetres) *)
(* from the camera.  probe holds the look direction, the camera position   *)
(* and the index the scan returned (-1 before the scan).                   *)
(***************************************************************************)
CameraStart == Point(0, 16, 100)

ViewLooks ==
    { <<0, 0, -1>>, <<1, 0, -1>>, <<1, 0, 0>>, <<-1, 0, -1>>,
      <<0, 1, -1>>, <<1, 1, -1>>, <<0, 0, 1>>, <<1, -1, 0>> }

ViewOffsets ==
    { <<10, 10, 0>>, <<0, 0, -50>>, <<0, 0, -51>>, <<0, 0, -100>>,
      <<0, 0, -101>>, <<20, 0, -20>>, <<0, 30, 0>>, <<-30, 0, 1>> }

ViewDistances == {0, (25 * Metre) \div 10}

ViewArtworks ==
    { Artwork(Vec(CameraStart.x + o[1] * (Metre \div 10),
                  CameraStart.y + o[2] * (Metre \div 10),
                  CameraStart.z + o[3] * (Metre \div 10)), vd) :
        o \in ViewOffsets, vd \in ViewDistances }

ViewArtLists ==
    {<<>>} \cup {<<a>> : a \in ViewArtworks}
           \cup {<<a, b>> : a \in ViewArtworks, b \in ViewArtworks}

\* The unit forward vector of a camera looking along look
LookForward(look) == Normalized(Vec(look[1] * 100, look[2] * 100, look[3] * 100))

InitView ==
    /\ now = StartTime
    /\ this = <<>>
    /\ op = <<"new">>
    /\ nEvents = 0
    /\ hist = NoHistory
    /\ artPieces \in ViewArtLists
    /\ \E look \in ViewLooks :
         probe = [look |-> look, position |-> CameraStart, bestArtwork |-> -1]

ScanView ==
    /\ probe.bestArtwork = -1
    /\ probe' = [probe EXCEPT !.bestArtwork =
                    findArtworkInView(LookForward(probe.look), probe.position, artPieces)]
    /\ op' = <<"findArtworkInView">>
    /\ UNCHANGED <<this, now, artPieces, nEvents, hist>>

NextView == ScanView

SpecView == InitView /\ [][NextView]_vars

(***************************************************************************)
(* findArtworkInView in a long hall: artworks up to 32 m from the camera,  *)
(* with viewingDistance missing or 20 m (metadata.viewingDistance is free  *)
(* data of the artwork).  The looks are those of ViewLooks whose dot       *)
(* product with the farthest offset stays within 32 bits in DotBelowHalf.  *)
(***************************************************************************)
HallLooks ==
    { <<1, 0, -1>>, <<-1, 0, -1>>, <<1, 1, -1>>, <<1, 0, 0>>, <<0, 0, 1>>, <<0, 1, -1>> }

HallOffsets ==
    { <<0, 0, -50>>, <<20, 0, -20>>, <<100, 0, -100>>, <<0, 0, -101>>, <<0, 0, -320>> }

HallDistances == {0, 20 * Metre}

HallArtworks ==
    { Artwork(Vec(CameraStart.x + o[1] * (Metre \div 10),
                  CameraStart.y + o[2] * (Metre \div 10),
                  CameraStart.z + o[3] * (Metre \div 10)), vd) :
        o \in HallOffsets, vd \in HallDistances }

HallArtLists ==
    {<<>>} \cup {<<a>> : a \in HallArtworks}
           \cup {<<a, b>> : a \in HallArtworks, b \in HallArtworks}

InitHall ==
    /\ now = StartTime
    /\ this = <<>>
    /\ op = <<"new">>
    /\ nEvents = 0
    /\ hist = NoHistory
    /\ artPieces \in HallArtLists
    /\ \E look \in HallLooks :
         probe = [look |-> look, position |-> CameraStart, bestArtwork |-> -1]

NextHall == ScanView

SpecHall == InitHall /\ [][NextHall]_vars

(***************************************************************************)
(* The intro tour on its own, with frames short enough to fall inside its  *)
(* 150 ms (a frame of 0 ms is one that runs in the millisecond of the      *)
(* last one, or of the call that started the tour).  The tour is only      *)
(* started while the clock of the model leaves room for it to end.         *)
(***************************************************************************)
TourDeltas == {0, 25, 50, 100}

TourEnd == 5600

TourFrame(delta, collides, rnd) ==
    /\ now + delta <= TourEnd
    /\ Frame(delta, collides, rnd)

TourStart ==
    /\ now + tourDuration + 100 <= TourEnd
    /\ StartIntroAnimation

\* A frame at a later millisecond than the last
TourAdvance ==
    \E delta \in TourDeltas \ {0} :
      \E collides \in CollisionAnswers(this), rnd \in RandomDraws(this, delta) :
        TourFrame(delta, collides, rnd)

\* A frame in the same millisecond
TourRepeat ==
    \E collides \in CollisionAnswers(this), rnd \in RandomDraws(this, 0) :
      TourFrame(0, collides, rnd)

NextTour ==
    \/ TourAdvance
    \/ TourRepeat
    \/ TourStart

SpecTour == Init /\ [][NextTour]_vars

\* The clock moves on by the length of a frame (a step of NextTour that does
\* so is a TourAdvance, which is enabled whenever this is)
ClockAdvance ==
    \E delta \in TourDeltas \ {0} : now + delta <= TourEnd /\ now' = now + delta

\* requestAnimationFrame keeps delivering frames, and the clock advances
SpecTourLive == Init /\ [][NextTour]_vars /\ WF_now(ClockAdvance)

(***************************************************************************)
(* The program in a gallery with a piece on the floor: right under the     *)
(* camera's starting point, or a little behind and to the left of it.      *)
(***************************************************************************)
LookArtLists ==
    { <<Artwork(Point(0, 2, 100), (25 * Metre) \div 10)>>,
      <<Artwork(Point(-3, 2, 99), (25 * Metre) \div 10)>> }

InitLook ==
    /\ now = StartTime
    /\ artPieces \in LookArtLists
    /\ op = <<"new">>
    /\ nEvents = 0
    /\ hist = NoHistory
    /\ probe = <<>>
    /\ \E ph \in InitPhases : this = InitialController(ph)

LookEnd == 14500

NextLook ==
    \/ \E delta \in FrameDeltas :
         \E collides \in CollisionAnswers(this), rnd \in RandomDraws(this, delta) :
           FrameUntil(LookEnd, delta, collides, rnd)
    \/ \E key \in Keys : KeyDown(key)
    \/ \E m \in MouseDeltas : MouseMove(m[1], m[2])
    \/ PointerLockChange

SpecLook == InitLook /\ [][NextLook]_vars

(***************************************************************************)
(* The blend between the modes, with frames short enough to fall inside    *)
(* the 800 ms of a transition, and the keyboard as the only input.         *)
(***************************************************************************)
BlendDeltas == {200, 400, 3200}

BlendEnd == 10000

BlendFrame(delta, collides, rnd) ==
    /\ now + delta <= BlendEnd
    /\ Frame(delta, collides, rnd)

NextBlend ==
    \/ \E delta \in BlendDeltas :
         \E collides \in CollisionAnswers(this), rnd \in RandomDraws(this, delta) :
           BlendFrame(delta, collides, rnd)
    \/ \E key \in Keys : KeyDown(key)
    \/ \E key \in Keys : KeyUp(key)

SpecBlend == Init /\ [][NextBlend]_vars

(***************************************************************************)
(* The program in a gallery whose one piece hangs 15 m ahead of the         *)
(* camera's starting point, out of reach until the camera has walked on.   *)
(***************************************************************************)
WalkArtLists == { <<Artwork(Point(0, 16, -50), 0)>> }

InitWalk ==
    /\ now = StartTime
    /\ artPieces \in WalkArtLists
    /\ op = <<"new">>
    /\ nEvents = 0
    /\ hist = NoHistory
    /\ probe = <<>>
    /\ \E ph \in InitPhases : this = InitialController(ph)

SpecWalk == InitWalk /\ [][Next]_vars

(***************************************************************************)
(* The program with a page that is suspended once: requestAnimationFrame   *)
(* stops while the page is hidden, and the first frame afterwards gets the *)
(* whole pause as its delta (THREE.Clock.getDelta() does not cap it).      *)
(***************************************************************************)
SuspendDeltas == {40 * 1000}

SuspendEnd == MaxTime + 40 * 1000

NextSuspend ==
    \/ \E delta \in FrameDeltas :
         \E collides \in CollisionAnswers(this), rnd \in RandomDraws(this, delta) :
           Frame(delta, collides, rnd)
    \/ \E delta \in SuspendDeltas :
         \E collides \in CollisionAnswers(this), rnd \in RandomDraws(this, delta) :
           FrameUntil(SuspendEnd, delta, collides, rnd)
    \/ \E key \in Keys : KeyDown(key)

SpecSuspend == Init /\ [][NextSuspend]_vars

(***************************************************************************)
(* The loading screen of main.js.  probe is the application: the simulated *)
(* progress in 1/70 (it starts at 0.1 and grows by 0.1 / 3.5 = 2/70 every  *)
(* 100 ms), the assetsLoaded flag of setupLoadingScreen, experienceStarted *)
(* and the pending timers, each as the time it is due (0 when it is not    *)
(* set or was cleared).  introStarts counts the calls of                   *)
(* cameraController.startIntroAnimation(), startedAt and fullAt record     *)
(* when the experience started and when the progress passed 1;             *)
(* loadedAtFull and seenLoadedAt record what the callbacks saw.  Timer     *)
(* callbacks run one at a time, the earliest due first, in either order    *)
(* when two are due together; onLoad may come between any two of them.     *)
(***************************************************************************)
stepInterval == 100

ProgressUnit == 70

TimersOf(app) ==
    {app.progressInterval, app.checkLoadingInterval, app.failsafe, app.delay} \ {0}

\* The timer due at time due is the next to run
NextDue(app, due) == due # 0 /\ \A other \in TimersOf(app) : due <= other

\* Mutation: startExperience forgets to set experienceStarted
startExperience_ForgetsFlag(app, t) ==
    IF app.experienceStarted THEN app
    ELSE [app EXCEPT !.progressInterval = 0,
                     !.introStarts = @ + 1,
                     !.startedAt = t]

\* startExperience(): the application after the call at time t
startExperience(app, t) ==
    IF app.experienceStarted THEN app
    ELSE [app EXCEPT !.experienceStarted = TRUE,
                     !.progressInterval = 0,
                     !.introStarts = @ + 1,
                     !.startedAt = t]

\* The controller after a callback that took the application from app to next
ControllerAfter(app, next, t) ==
    IF next.introStarts > app.introStarts
    THEN startIntroAnimation(Entry, t) ELSE this

InitLoad ==
    /\ now = StartTime
    /\ artPieces = <<>>
    /\ op = <<"new">>
    /\ nEvents = 0
    /\ hist = NoHistory
    /\ \E ph \in InitPhases : this = InitialController(ph)
    /\ probe = [simulatedProgress |-> ProgressUnit \div 10,
                assetsLoaded |-> FALSE,
                experienceStarted |-> FALSE,
                progressInterval |-> StartTime + stepInterval,
                checkLoadingInterval |-> 0,
                failsafe |-> 0,
                delay |-> 0,
                introStarts |-> 0,
                startedAt |-> 0,
                fullAt |-> 0,
                loadedAtFull |-> FALSE,
                seenLoadedAt |-> 0]

\* The callback of a timer: the clock is at the time the timer was due
TimerStep(name, due, next) ==
    /\ NextDue(probe, due)
    /\ now' = due
    /\ probe' = next
    /\ this' = ControllerAfter(probe, next, due)
    /\ op' = <<name>>
    /\ UNCHANGED <<artPieces, nEvents, hist>>

\* loadingManager.onLoad
OnLoad ==
    /\ ~probe.assetsLoaded
    /\ probe' = [probe EXCEPT !.assetsLoaded = TRUE]
    /\ op' = <<"onLoad">>
    /\ UNCHANGED <<this, now, artPieces, nEvents, hist>>

\* The callback of progressInterval
ProgressTick ==
    LET due      == probe.progressInterval
        progress == probe.simulatedProgress + 2
        stepped  == [probe EXCEPT !.simulatedProgress = progress]
    IN  TimerStep("progressInterval", due,
          IF progress <= ProgressUnit
          THEN [stepped EXCEPT !.progressInterval = due + stepInterval]
          ELSE IF ~probe.assetsLoaded
          THEN [stepped EXCEPT !.progressInterval = 0,
                               !.fullAt = due,
                               !.checkLoadingInterval = due + 100,
                               !.failsafe = due + 5000]
          ELSE [stepped EXCEPT !.progressInterval = 0,
                               !.fullAt = due,
                               !.loadedAtFull = TRUE,
                               !.delay = due + 1000])

\* The callback of checkLoadingInterval
CheckLoadingTick ==
    LET due == probe.checkLoadingInterval
    IN  TimerStep("checkLoadingInterval", due,
          IF probe.assetsLoaded
          THEN startExperience([probe EXCEPT !.checkLoadingInterval = 0,
                                             !.seenLoadedAt = due], due)
          ELSE [probe EXCEPT !.checkLoadingInterval = due + 100])

\* Mutation: the failsafe starts the experience only if the assets are loaded
Failsafe_WaitsForAssets ==
    LET due == probe.failsafe
    IN  TimerStep("failsafe", due,
          IF ~probe.experienceStarted /\ probe.assetsLoaded
          THEN startExperience([probe EXCEPT !.failsafe = 0,
                                             !.checkLoadingInterval = 0], due)
          ELSE [probe EXCEPT !.failsafe = 0])

\* The callback of the 5 s failsafe timeout
Failsafe ==
    LET due == probe.failsafe
    IN  TimerStep("failsafe", due,
          IF ~probe.experienceStarted
          THEN startExperience([probe EXCEPT !.failsafe = 0,
                                             !.checkLoadingInterval = 0], due)
          ELSE [probe EXCEPT !.failsafe = 0])

\* The callback of the 1 s timeout
DelayedStart ==
    LET due == probe.delay
    IN  TimerStep("delay", due, startExperience([probe EXCEPT !.delay = 0], due))

TimerFires ==
    \/ ProgressTick
    \/ CheckLoadingTick
    \/ Failsafe
    \/ DelayedStart

NextLoad ==
    \/ TimerFires
    \/ OnLoad

SpecLoad == InitLoad /\ [][NextLoad]_vars

\* the browser runs every timer that is due
SpecLoadLive == InitLoad /\ [][NextLoad]_vars /\ WF_vars(TimerFires)

(***************************************************************************)
(* The program until every transition has run out: frames are delivered    *)
(* until SettleEnd and, beyond it, for as long as a transition or a tour   *)
(* is still under way (SettleLimit is never reached: see SettlesInTime).   *)
(* Every input event beyond SettleEnd can start one more transition or     *)
(* tour, so the limit leaves two longest frames (3 s each) per event.      *)
(***************************************************************************)
SettleEnd == 10000

SettleLimit == SettleEnd + (MaxEvents + 1) * 2 * 3000

FrameWanted(delta) ==
    /\ now + delta <= SettleLimit
    /\ \/ now + delta <= SettleEnd
       \/ this.inTransition
       \/ this.isTourMode

SettleFrame(delta, collides, rnd) ==
    /\ FrameWanted(delta)
    /\ FrameUntil(SettleLimit, delta, collides, rnd)

NextSettle ==
    \/ \E delta \in FrameDeltas :
         \E collides \in CollisionAnswers(this), rnd \in RandomDraws(this, delta) :
           SettleFrame(delta, collides, rnd)
    \/ \E key \in Keys : KeyDown(key)
    \/ \E key \in Keys : KeyUp(key)
    \/ \E m \in MouseDeltas : MouseMove(m[1], m[2])
    \/ PointerLockChange
    \/ StartIntroAnimation

SpecSettle == Init /\ [][NextSettle]_vars

\* The clock moves on by the length of a frame (a step of NextSettle that
\* does so is a SettleFrame, which is enabled whenever this is)
SettleClock ==
    \E delta \in FrameDeltas : FrameWanted(delta) /\ now' = now + delta

\* requestAnimationFrame keeps delivering frames, and the clock advances
SpecSettleLive == Init /\ [][NextSettle]_vars /\ WF_now(SettleClock)

(***************************************************************************)
(* The program after the visitor has clicked into the canvas: the pointer  *)
(* is locked from the start, which leaves both input events of a behaviour *)
(* for key presses and pointer deltas.                                     *)
(***************************************************************************)
InitLocked ==
    /\ now = StartTime
    /\ artPieces \in ArtLists
    /\ op = <<"pointerlockchange">>
    /\ nEvents = 0
    /\ hist = NoHistory
    /\ probe = <<>>
    /\ \E ph \in InitPhases : this = [InitialController(ph) EXCEPT !.pointerLocked = TRUE]

SpecLocked == InitLocked /\ [][Next]_vars

(***************************************************************************)
(* The visitor walking with the pointer locked: movement keys that can     *)
(* cancel each other, and frames that may come more than idleThreshold     *)
(* apart (requestAnimationFrame pauses while the page is hidden).          *)
(***************************************************************************)
StrollDeltas == {500, 3000, 4000}

StrollKeys == {"w", "s"}

NextStroll ==
    \/ \E delta \in StrollDeltas :
         \E collides \in CollisionAnswers(this), rnd \in RandomDraws(this, delta) :
           Frame(delta, collides, rnd)
    \/ \E key \in StrollKeys : KeyDown(key)
    \/ \E key \in StrollKeys : KeyUp(key)
    \/ StartIntroAnimation

SpecStroll == InitLocked /\ [][NextStroll]_vars

(***************************************************************************)
(* The program watched long enough for several glances at one artwork.     *)
(* probe is the sequence of glance calls made since the artwork gained     *)
(* focus: each updateArtworkFocus call of smoothLookAt(point, 3.0), "back" *)
(* when the point is the artwork's position and "away" otherwise.  One     *)
(* input event at most interrupts the watching.                            *)
(***************************************************************************)
GlanceArtLists == { <<Artwork(Point(34, 16, 66), (25 * Metre) \div 10)>> }

GlanceEnd == 21500

InitGlance ==
    /\ now = StartTime
    /\ artPieces \in GlanceArtLists
    /\ op = <<"new">>
    /\ nEvents = 0
    /\ hist = NoHistory
    /\ probe = <<>>
    /\ \E ph \in InitPhases : this = InitialController(ph)

\* The smoothLookAt(point, 3.0) calls of a handler, in call order
GlanceCalls(s) ==
    SelectSeq(s.log, LAMBDA e : e[1] = "smoothLookAt" /\ e[3] = 3000)

GlanceKind(s, call) ==
    IF call[2] = artPieces[s.focusedArtwork].position THEN "back" ELSE "away"

RECURSIVE GlanceKinds(_, _)
GlanceKinds(s, calls) ==
    IF calls = <<>> THEN <<>>
    ELSE <<GlanceKind(s, Head(calls))>> \o GlanceKinds(s, Tail(calls))

\* The glances of the focus period after a frame
GlancesAfter(before, after) ==
    IF after.focusedArtwork = 0 THEN <<>>
    ELSE (IF before.focusedArtwork # after.focusedArtwork
             \/ HasLogged(after.log, "onFocusArtwork")
          THEN <<>> ELSE probe) \o GlanceKinds(after, GlanceCalls(after))

GlanceFrame(delta, collides, rnd) ==
    /\ now + delta <= GlanceEnd
    /\ now' = now + delta
    /\ this' = update(Entry, delta, artPieces, collides, rnd, now + delta)
    /\ op' = <<"update", delta>>
    /\ hist' = AfterFrame(this')
    /\ probe' = GlancesAfter(this, this')
    /\ UNCHANGED <<artPieces, nEvents>>

GlanceDeltas == {1500, 3000}

NextGlance ==
    \/ \E delta \in GlanceDeltas :
         \E collides \in CollisionAnswers(this), rnd \in RandomDraws(this, delta) :
           GlanceFrame(delta, collides, rnd)
    \/ nEvents = 0 /\ \E key \in Keys : KeyDown(key)
    \/ nEvents = 0 /\ \E m \in MouseDeltas : MouseMove(m[1], m[2])
    \/ nEvents = 0 /\ PointerLockChange

SpecGlance == InitGlance /\ [][NextGlance]_vars

(***************************************************************************)
(* The controller with applyNaturalMovement open to direct calls, next to  *)
(* the frames and key presses that bring the intensity to its values.      *)
(***************************************************************************)
ApplyNaturalMovementCall(delta) ==
    /\ nEvents < MaxEvents
    /\ nEvents' = nEvents + 1
    /\ this' = applyNaturalMovement(Entry, delta)
    /\ op' = <<"applyNaturalMovement", delta>>
    /\ UNCHANGED <<now, artPieces, hist, probe>>

NextSway ==
    \/ \E delta \in FrameDeltas :
         \E collides \in CollisionAnswers(this), rnd \in RandomDraws(this, delta) :
           Frame(delta, collides, rnd)
    \/ \E key \in Keys : KeyDown(key)
    \/ \E delta \in FrameDeltas : ApplyNaturalMovementCall(delta)

SpecSway == Init /\ [][NextSway]_vars

(***************************************************************************)
(* handleMovement on its own: a controller with the pointer locked, at a   *)
(* yaw and pitch, with two movement keys of different axes held (and shift *)
(* or not), takes one step of delta ms.  probe holds the inputs and, after *)
(* the step, the displacement (in 1/10 mm) next to the displacements that  *)
(* the same step gives with one key held, and with the camera level.       *)
(***************************************************************************)
StrideYaws == {0, 400, 785, 1571, 2500, -1000, 4000, -3142}

StridePitches == {0, 900, -1500}

StrideDeltas == {100, 3000}

DiagonalKeys == {{"w", "d"}, {"w", "a"}, {"s", "d"}, {"s", "a"}}

SingleKeys == {"w", "a", "s", "d"}

\* The controller of the probe, holding the keys
Walker(p, keys) ==
    [InitialController(<<0, 0>>) EXCEPT
        !.pointerLocked = TRUE,
        !.yaw = p.yaw,
        !.pitch = p.pitch,
        !.camera.quaternion = Quaternion(p.yaw, p.pitch),
        !.keys = keys \cup (IF p.sprint THEN {"shift"} ELSE {})]

Displacement(from, to) ==
    Vec(to.camera.position.x - from.camera.position.x,
        to.camera.position.y - from.camera.position.y,
        to.camera.position.z - from.camera.position.z)

InitStride ==
    /\ now = StartTime
    /\ artPieces = <<>>
    /\ op = <<"new">>
    /\ nEvents = 0
    /\ hist = NoHistory
    /\ probe \in [yaw : StrideYaws, pitch : StridePitches, delta : StrideDeltas,
                  sprint : BOOLEAN, diagonal : DiagonalKeys, single : SingleKeys,
                  moved : {<<>>}]
    /\ this = Walker(probe, probe.diagonal)

Stride ==
    /\ probe.moved = <<>>
    /\ this' = handleMovement(Entry, probe.delta, FALSE, now)
    /\ LET one   == Walker(probe, {probe.single})
           level == Walker([probe EXCEPT !.pitch = 0], probe.diagonal)
       IN  probe' = [probe EXCEPT !.moved =
              [diagonal |-> Displacement(this, this'),
               single   |-> Displacement(one, handleMovement(one, probe.delta, FALSE, now)),
               level    |-> Displacement(level,
                                         handleMovement(level, probe.delta, FALSE, now))]]
    /\ op' = <<"handleMovement", probe.delta>>
    /\ UNCHANGED <<now, artPieces, nEvents, hist>>

NextStride == Stride

SpecStride == InitStride /\ [][NextStride]_vars

(***************************************************************************)
(* The orientation round trip on its own: yaw and pitch are applied to the *)
(* camera and read back from its forward direction.  The yaws are ones     *)
(* that pointer deltas can accumulate, the pitches lie within the clamp of *)
(* the mousemove listener.  probe holds the pair and what was read back.   *)
(***************************************************************************)
TurnYaws ==
    {-7000, -4000, -3100, -2000, -1571, -500, 0, 300, 785, 1571, 2500, 3100,
     4000, 6284, 9000}

TurnPitches == {-PitchLimit, -900, -300, 0, 300, 900, PitchLimit}

InitTurn ==
    /\ now = StartTime
    /\ artPieces = <<>>
    /\ op = <<"new">>
    /\ nEvents = 0
    /\ hist = NoHistory
    /\ this = <<>>
    /\ probe \in [yaw : TurnYaws, pitch : TurnPitches, read : {<<>>}]

ReadBack ==
    /\ probe.read = <<>>
    /\ probe' = [probe EXCEPT !.read = readOrientation(Quaternion(probe.yaw, probe.pitch))]
    /\ op' = <<"initOrientation">>
    /\ UNCHANGED <<this, now, artPieces, nEvents, hist>>

NextTurn == ReadBack

SpecTurn == InitTurn /\ [][NextTurn]_vars

(***************************************************************************)
(* Properties.  A step whose op' is "update" is a frame; this is the       *)
(* controller when the frame begins and this' when update() returns, and   *)
(* this'.log lists what update() called during the frame.                  *)
(***************************************************************************)
\* collisionCheck was asked about a proposed position and answered true
Collided(log) ==
    \E i \in 1..Len(log) : log[i][1] = "collisionCheck" /\ log[i][3]

\* onFocusArtwork was invoked with an artwork other than a
FocusedAnother(log, a) ==
    \E i \in 1..Len(log) : log[i][1] = "onFocusArtwork" /\ log[i][2] # a

\* C1: when a key press or a pointer-locked pointer delta has arrived while
\* isNaturalMode was true and naturalIntensity > 0 (the transition into
\* natural mode included), the next frame ends with isNaturalMode false and
\* either a transition (to manual) in progress or naturalIntensity 0.
C1_InputEndsNaturalMode ==
    [][(op'[1] = "update" /\ ~this.isTourMode /\ hist.inputWhileNatural)
          => (~this'.isNaturalMode
                /\ (this'.inTransition \/ this'.naturalIntensity = 0))]_vars

\* C2: when user input has taken the controller out of natural mode while an
\* artwork was focused, update() invokes onBlurArtwork with that artwork
\* before another artwork gains focus: no frame invokes onFocusArtwork with
\* another artwork while that blur is still owed.
C2_BlurBeforeNextFocus ==
    [][(op'[1] = "update" /\ hist.blurOwed # 0)
          => ~FocusedAnother(this'.log, hist.blurOwed)]_vars

\* C3: leaving natural mode clears the focus: a non-tour frame that begins
\* with isNaturalMode false ends, unless it has entered natural mode anew,
\* with focusedArtwork null and lookAwayTimer and lookBackTimer 0; and a
\* frame that enters natural mode does not begin with an artwork still
\* focused from an earlier session.
C3_LeavingNaturalClearsFocus ==
    [][(op'[1] = "update" /\ ~this.isTourMode /\ ~this.isNaturalMode)
          => /\ ~this'.isNaturalMode =>
                   (this'.focusedArtwork = 0 /\ this'.lookAwayTimer = 0
                      /\ this'.lookBackTimer = 0)
             /\ this'.isNaturalMode => this.focusedArtwork = 0]_vars

\* C4 (as claimed): in a frame where keys attempt a movement and the
\* collision predicate answers true, the camera position (x, y and z) when
\* update() returns is the position the frame began with.
C4_CollisionKeepsPosition ==
    [][(op'[1] = "update" /\ Collided(this'.log))
          => this'.camera.position = this.camera.position]_vars

\* C4 (amended): in such a frame x and z are those the frame began with,
\* and y differs only when applyNaturalMovement ran in the frame with
\* naturalIntensity > 0 (its breathing offset).
C4_CollisionKeepsGroundPosition ==
    [][(op'[1] = "update" /\ Collided(this'.log))
          => /\ this'.camera.position.x = this.camera.position.x
             /\ this'.camera.position.z = this.camera.position.z
             /\ \/ this'.camera.position.y = this.camera.position.y
                \/ /\ HasLogged(this'.log, "applyNaturalMovement")
                   /\ this'.naturalIntensity > 0]_vars

\* C4 witness: a frame that collided while natural motion was blended in
C4_Witness ==
    /\ op[1] = "update"
    /\ Collided(this.log)
    /\ HasLogged(this.log, "applyNaturalMovement")
    /\ this.naturalIntensity > 0

\* C5: while pointerLocked is false, held movement keys never translate the
\* camera: a (non-tour) frame that begins with pointerLocked false leaves
\* camera x and z unchanged, whatever the mode flags.
C5_NoMovementWithoutLock ==
    [][(op'[1] = "update" /\ ~this.isTourMode /\ ~this.pointerLocked)
          => /\ this'.camera.position.x = this.camera.position.x
             /\ this'.camera.position.z = this.camera.position.z]_vars

\* C6: while an artwork is focused no step replaces it with another
\* artwork, runs a scan or invokes onFocusArtwork: focusedArtwork only
\* changes from that artwork to null.
C6_FocusIsKept ==
    [][this.focusedArtwork # 0
          => /\ this'.focusedArtwork \in {this.focusedArtwork, 0}
             /\ ~HasLogged(this'.log, "findArtworkInView")
             /\ ~HasLogged(this'.log, "onFocusArtwork")]_vars

\* C6 witness: a frame has kept artwork 1 focused although a scan was due
\* and would have chosen artwork 2
C6_Witness ==
    /\ op[1] = "update"
    /\ this.isNaturalMode
    /\ this.focusedArtwork = 1
    /\ now - this.lastScanTime > 2000
    /\ findArtworkInView(Forward(this.camera.quaternion),
                         this.camera.position, artPieces) = 2

\* The offset of a scanned artwork from the probe's camera, in decimetres
ProbeOffset(art) ==
    <<(art.position.x - probe.position.x) \div (Metre \div 10),
      (art.position.y - probe.position.y) \div (Metre \div 10),
      (art.position.z - probe.position.z) \div (Metre \div 10)>>

\* (2 look.o)^2 and |look|^2 |o|^2: the dot product of the two unit vectors
\* is 1/2 when they are equal, and above it when the first is the larger
FourDotSq(look, o) ==
    4 * (look[1] * o[1] + look[2] * o[2] + look[3] * o[3])
      * (look[1] * o[1] + look[2] * o[2] + look[3] * o[3])

NormSq(look, o) ==
    (look[1] * look[1] + look[2] * look[2] + look[3] * look[3])
      * (o[1] * o[1] + o[2] * o[2] + o[3] * o[3])

Ahead(look, o) == look[1] * o[1] + look[2] * o[2] + look[3] * o[3] > 0

\* distance <= 2 * viewingDistance (5 when missing), in decimetres
WithinReach(art, o) ==
    LET reach == IF art.viewingDistance = 0 THEN 100
                 ELSE (2 * art.viewingDistance) \div (Metre \div 10)
    IN  o[1] * o[1] + o[2] * o[2] + o[3] * o[3] <= reach * reach

C8_SecondTransitionIsDropped ==
    [][(op'[1] = "startTransition" /\ this.inTransition)
          => this' = [this EXCEPT !.log = <<>>]]_vars

\* C8 witness: a call toward the other mode has arrived while a transition
\* started earlier was in progress
C8_Witness ==
    /\ op[1] = "startTransition"
    /\ this.inTransition
    /\ this.transitionStartTime < now
    /\ op[2] # this.isNaturalMode

\* C9: a non-tour frame starts a transition toward natural mode exactly when
\* its time is more than 3000 ms after lastActiveTime, isNaturalMode is
\* false and no transition is in progress; and no step starts one 3000 ms
\* or less after the last registered activity.
C9_IdleStartsNaturalMode ==
    [][/\ (op'[1] = "update" /\ ~this.isTourMode)
            => (HasLoggedWith(this'.log, "startTransition", TRUE)
                  <=> (now' - this.lastActiveTime > 3000
                         /\ ~this.isNaturalMode /\ ~this.inTransition))
       /\ HasLoggedWith(this'.log, "startTransition", TRUE)
            => now' - this.lastActiveTime > 3000]_vars

\* C9 witness: a frame has started the transition toward natural mode
C9_Witness ==
    /\ op[1] = "update"
    /\ HasLoggedWith(this.log, "startTransition", TRUE)
    /\ this.isNaturalMode
    /\ this.transitionStartTime = now

\* C10: a frame that begins with isTourMode true calls updateTour and
\* nothing else (no transition or look animation step, no natural motion,
\* no scan, no movement, no collisionCheck, no onFocusArtwork or
\* onBlurArtwork), and leaves naturalIntensity, inTransition, isNaturalMode,
\* focusedArtwork and lastScanTime as they were.
C10_TourFrameOnlyPlaysTour ==
    [][(op'[1] = "update" /\ this.isTourMode)
          => /\ \A i \in 1..Len(this'.log) : this'.log[i][1] = "updateTour"
             /\ this'.naturalIntensity = this.naturalIntensity
             /\ this'.inTransition = this.inTransition
             /\ this'.isNaturalMode = this.isNaturalMode
             /\ this'.focusedArtwork = this.focusedArtwork
             /\ this'.lastScanTime = this.lastScanTime
             /\ this'.lookAnimation = this.lookAnimation
             /\ this'.breathePhase = this.breathePhase
             /\ this'.wigglePhase = this.wigglePhase
             /\ this'.lastActiveTime = this.lastActiveTime]_vars

\* C10 witness: a tour frame has run while a transition was in progress, an
\* artwork was focused and a movement key was held
C10_Witness ==
    /\ op[1] = "update"
    /\ HasLogged(this.log, "updateTour")
    /\ this.inTransition
    /\ this.focusedArtwork # 0
    /\ this.keys # {}

\* C11: in a tour frame the camera stands on the first path point when the
\* eased progress is 0 and on the last when it is 1, and isTourMode turns
\* false in exactly the frames whose elapsed time has reached tourDuration
\* (rawProgress 1), so in the first such frame and in none before it.
C11_TourEndpoints ==
    [][(op'[1] = "update" /\ this.isTourMode)
          => /\ this'.tourProgress = 0
                  => this'.camera.position = this.tourPath[1]
             /\ this'.tourProgress = Scale
                  => this'.camera.position = this.tourPath[Len(this.tourPath)]
             /\ ~this'.isTourMode <=> now' - this.tourStartTime >= 150
             /\ ~this'.isTourMode => this'.tourProgress = Scale]_vars

\* C11 witness: the frame that ended a tour, on the last path point
C11_Witness ==
    /\ op[1] = "update"
    /\ HasLogged(this.log, "updateTour")
    /\ ~this.isTourMode
    /\ this.camera.position = this.tourPath[Len(this.tourPath)]

\* C12: while frames are delivered and the clock advances, a tour that has
\* been started ends (isTourMode leads to ~isTourMode), and a frame that
\* begins with isTourMode false runs the state machine and not the tour:
\* it advances a transition or look animation in progress and starts the
\* transition to natural mode when idle.
C12_TourEnds ==
    /\ this.isTourMode ~> ~this.isTourMode
    /\ [][(op'[1] = "update" /\ ~this.isTourMode)
            => /\ ~HasLogged(this'.log, "updateTour")
               /\ this.inTransition => HasLogged(this'.log, "updateTransition")
               /\ this.lookAnimation.active
                    => HasLogged(this'.log, "updateLookAnimation")
               /\ (now' - this.lastActiveTime > 3000 /\ ~this.isNaturalMode
                     /\ ~this.inTransition)
                    => HasLoggedWith(this'.log, "startTransition", TRUE)]_vars

\* C12 witness: a frame after a finished tour, which did not play the tour
C12_Witness ==
    /\ op[1] = "update"
    /\ ~this.isTourMode
    /\ this.tourProgress = Scale
    /\ ~HasLogged(this.log, "updateTour")

\* C13: pitch lies strictly inside (-pi/2, pi/2) in every state, also when
\* the focused artwork or a look-away point is right above or below the
\* camera.
C13_PitchInsidePoles == this.pitch > -HalfPi /\ this.pitch < HalfPi

\* A frame outside the tour that finds a transition whose time has run out
TransitionDue ==
    /\ op'[1] = "update"
    /\ ~this.isTourMode
    /\ this.inTransition
    /\ now' - this.transitionStartTime >= transitionDuration

\* C14 as stated: naturalIntensity is in [0,1] in every state, and the
\* first frame outside the tour in which a transition's elapsed time has
\* reached transitionDuration leaves inTransition false and naturalIntensity
\* exactly 1 (target natural) or 0 (target manual).
C14_TransitionEndsInFrame ==
    /\ [](this.naturalIntensity >= 0 /\ this.naturalIntensity <= Scale)
    /\ [][TransitionDue
            => /\ ~this'.inTransition
               /\ this'.naturalIntensity = IF this.isNaturalMode THEN Scale ELSE 0]_vars

\* C14, amended: as above, but inTransition is only false after the frame if
\* the frame's own handleMovement has not begun the transition back to
\* manual mode (a movement key is held when the fade-in completes); then a
\* new transition runs from this frame's time, with the intensity still at
\* exactly 1.
C14_TransitionEndsOrRestarts ==
    /\ [](this.naturalIntensity >= 0 /\ this.naturalIntensity <= Scale)
    /\ [][TransitionDue
            => /\ this'.naturalIntensity = IF this.isNaturalMode THEN Scale ELSE 0
               /\ \/ ~this'.inTransition /\ this'.isNaturalMode = this.isNaturalMode
                  \/ /\ this.isNaturalMode
                     /\ HasLoggedWith(this'.log, "startTransition", FALSE)
                     /\ this'.inTransition
                     /\ ~this'.isNaturalMode
                     /\ this'.transitionStartTime = now']_vars

\* a fade-out has just ended in a frame, after a fade-in had ended before it
C14_Witness ==
    /\ op[1] = "update"
    /\ HasLogged(this.log, "updateTransition")
    /\ ~this.inTransition
    /\ ~this.isNaturalMode
    /\ this.naturalIntensity = 0
    /\ now - this.transitionStartTime >= transitionDuration

\* The intensity a transition out of natural mode has in the state's frame,
\* had it started when the state's transition did
ManualExitIntensity ==
    updateTransition([this EXCEPT !.isNaturalMode = FALSE, !.inTransition = TRUE],
                     now).naturalIntensity

\* C15: halfway through a transition into natural mode, the intensity is
\* strictly less than the complement of the intensity that a transition to
\* manual mode has halfway through.
C15_SlowInQuickOut ==
    (/\ op[1] = "update"
     /\ this.inTransition
     /\ this.isNaturalMode
     /\ 2 * (now - this.transitionStartTime) = transitionDuration)
        => this.naturalIntensity < Scale - ManualExitIntensity

\* The yaw differences the frame's updateLookAnimation interpolated
LoggedYawDiffs(log) ==
    {log[i][2] : i \in {j \in 1..Len(log) : log[j][1] = "updateLookAnimation"}}

\* C16: the yaw difference a look animation interpolates has magnitude at
\* most pi, whatever the yaw was when the animation started, and the yaw
\* it produces is within half a turn of the yaw it started from.
C16_ShortestTurn ==
    /\ \A d \in LoggedYawDiffs(this.log) : Abs(d) <= Pi
    /\ (/\ op[1] = "update"
        /\ HasLogged(this.log, "updateLookAnimation")
        /\ ~HasLogged(this.log, "smoothLookAt")
        /\ this.lookAnimation.active)
          => Abs(this.yaw - this.lookAnimation.startYaw) <= Pi

\* a frame has advanced an animation whose target is more than pi away from
\* its start, as the angles are written
C16_Witness ==
    /\ op[1] = "update"
    /\ \E d \in LoggedYawDiffs(this.log) : d # 0
    /\ ~HasLogged(this.log, "smoothLookAt")
    /\ this.lookAnimation.active
    /\ Abs(this.lookAnimation.targetYaw - this.lookAnimation.startYaw) > Pi

\* also reachable: an animation in flight that started from a yaw outside
\* [-pi, pi] (it replaced a look-away animation that was under way)
C16_UnnormalizedStart ==
    /\ op[1] = "update"
    /\ \E d \in LoggedYawDiffs(this.log) : d # 0
    /\ this.lookAnimation.active
    /\ ~HasLogged(this.log, "smoothLookAt")
    /\ (this.lookAnimation.startYaw > Pi \/ this.lookAnimation.startYaw < -Pi)

\* A frame outside the tour that finds an active look animation whose
\* duration has run out
AnimationDue ==
    /\ op'[1] = "update"
    /\ ~this.isTourMode
    /\ this.lookAnimation.active
    /\ now' - this.lookAnimation.startTime >= this.lookAnimation.duration

\* A frame never touches yaw and pitch through an inactive animation: they
\* are what the frame's other steps leave (startTransition(true) re-reads
\* them from the camera)
InactiveLeavesAngles ==
    (/\ op'[1] = "update"
     /\ ~this.isTourMode
     /\ ~this.lookAnimation.active)
        => /\ ~HasLogged(this'.log, "updateLookAnimation")
           /\ this'.yaw = IF HasLoggedWith(this'.log, "startTransition", TRUE)
                          THEN QuaternionToYaw(this.camera.quaternion)
                          ELSE this.yaw
           /\ this'.pitch = IF HasLoggedWith(this'.log, "startTransition", TRUE)
                            THEN QuaternionToPitch(this.camera.quaternion)
                            ELSE this.pitch

\* C17 as stated: the first frame that advances an active look animation
\* whose elapsed time has reached its duration sets yaw and pitch exactly to
\* the targets and leaves the animation inactive; an inactive animation
\* never changes yaw or pitch.
C17_AnimationCompletes ==
    /\ [][AnimationDue
            => /\ this'.yaw = this.lookAnimation.targetYaw
               /\ this'.pitch = this.lookAnimation.targetPitch
               /\ ~this'.lookAnimation.active]_vars
    /\ [][InactiveLeavesAngles]_vars

\* C17, amended: as above, but the animation is only found inactive after
\* the frame if the frame's updateArtworkFocus has not begun the next one (a
\* look-away or look-back falling due in the same frame); that one starts at
\* the frame's time from the targets just reached.
C17_AnimationCompletesOrIsReplaced ==
    /\ [][AnimationDue
            => /\ this'.yaw = this.lookAnimation.targetYaw
               /\ this'.pitch = this.lookAnimation.targetPitch
               /\ \E i \in 1..Len(this'.log) :
                     /\ this'.log[i][1] = "updateLookAnimation"
                     /\ this'.log[i][3]
               /\ \/ ~this'.lookAnimation.active
                  \/ /\ HasLogged(this'.log, "smoothLookAt")
                     /\ this'.lookAnimation.startTime = now'
                     /\ this'.lookAnimation.startYaw = this.lookAnimation.targetYaw
                     /\ this'.lookAnimation.startPitch
                          = this.lookAnimation.targetPitch]_vars
    /\ [][InactiveLeavesAngles]_vars

\* a frame has completed an animation that needed the wraparound, and left
\* it inactive
C17_Witness ==
    /\ op[1] = "update"
    /\ \E i \in 1..Len(this.log) :
          this.log[i][1] = "updateLookAnimation" /\ this.log[i][3]
    /\ ~this.lookAnimation.active
    /\ this.yaw = this.lookAnimation.targetYaw
    /\ this.pitch = this.lookAnimation.targetPitch
    /\ Abs(this.lookAnimation.targetYaw - this.lookAnimation.startYaw) > Pi

\* The smoothLookAt calls of a handler: <<target, duration>>
LookCalls(log) ==
    {<<log[i][2], log[i][3]>> : i \in {j \in 1..Len(log) : log[j][1] = "smoothLookAt"}}

\* The camera position at the time the frame's updateArtworkFocus runs: the
\* height the frame's breathing has set, and the ground position of before
\* the frame's movement
PositionAtCall ==
    Vec(this.camera.position.x, this'.camera.position.y, this.camera.position.z)

\* The animation record is the one that a call with this target and
\* duration, made in the step's frame, creates
CreatedBy(call) ==
    LET direction == SubVectors(call[1], PositionAtCall)
        xzLength  == Sqrt(direction.x * direction.x + direction.z * direction.z)
    IN  /\ this'.lookAnimation.active
        /\ this'.lookAnimation.startTime = now'
        /\ this'.lookAnimation.duration = call[2]
        /\ this'.lookAnimation.startYaw = this'.yaw
        /\ this'.lookAnimation.startPitch = this'.pitch
        /\ this'.lookAnimation.targetYaw = DirectionToYaw(direction.x, direction.z)
        /\ this'.lookAnimation.targetPitch = DirectionToPitch(direction.y, xzLength)

\* C18: there is one look animation; a smoothLookAt call, also one made
\* while an animation is in flight, replaces it completely: the new one
\* starts from the yaw and pitch of the moment of the call, with its own
\* start time, duration and targets, and a frame that advances an animation
\* takes yaw and pitch from the current animation record alone.
C18_NewAnimationReplaces ==
    /\ [][op'[1] = "update"
            => /\ Cardinality(LookCalls(this'.log)) <= 1
               /\ \A call \in LookCalls(this'.log) : CreatedBy(call)]_vars
    /\ [][(op'[1] = "update" /\ ~this.isTourMode /\ this.lookAnimation.active)
            => /\ this'.yaw = updateLookAnimation(this, now').yaw
               /\ this'.pitch = updateLookAnimation(this, now').pitch]_vars

\* a look-back has replaced a look-away that the same frame had advanced
\* without completing it
C18_Witness ==
    /\ op[1] = "update"
    /\ \E i \in 1..Len(this.log) :
          this.log[i][1] = "updateLookAnimation" /\ ~this.log[i][3]
    /\ this.focusedArtwork # 0
    /\ \E call \in LookCalls(this.log) :
          call[1] = artPieces[this.focusedArtwork].position /\ call[2] = 3000
    /\ this.lookAnimation.active
    /\ this.lookAnimation.startTime = now
    /\ this.lookAnimation.startYaw = this.yaw
    /\ this.lookAnimation.startYaw # this.lookAnimation.targetYaw

\* The frame ran findArtworkInView
Scanned(log) == HasLogged(log, "findArtworkInView")

\* Natural mode was on when the frame's scan ran: it was on before the frame,
\* or the frame turned it on before it scanned
NaturalAtScan(before, log) ==
    \/ before.isNaturalMode
    \/ \E i, j \in 1..Len(log) :
          /\ i < j
          /\ log[i][1] = "startTransition" /\ log[i][2]
          /\ log[j][1] = "findArtworkInView"

\* C19: lastScanTime is the time of the last scan (only a scan writes it), a
\* scan runs more than 2000 ms after it, and only in a frame that finds no
\* artwork focused and runs the focus step in natural mode.
C19_ScanCadence ==
    /\ [][this'.lastScanTime # this.lastScanTime
            => op'[1] = "update" /\ Scanned(this'.log)]_vars
    /\ [][(op'[1] = "update" /\ Scanned(this'.log))
            => /\ this'.lastScanTime = now'
               /\ now' - this.lastScanTime > scanInterval
               /\ this.focusedArtwork = 0
               /\ NaturalAtScan(this, this'.log)]_vars
    /\ [][(op'[1] # "update") => ~Scanned(this'.log)]_vars

\* a scan that is not the first of its stay in natural mode: that one ran in
\* the frame that started the transition
C19_Witness ==
    /\ op[1] = "update"
    /\ Scanned(this.log)
    /\ this.lastScanTime = now
    /\ this.isNaturalMode
    /\ now - this.transitionStartTime > scanInterval

\* The artworks the handler has passed to onFocusArtwork, one per call
FocusCalls(log) == {i \in 1..Len(log) : log[i][1] = "onFocusArtwork"}

\* A step in which focusedArtwork goes from null to an artwork
GainsFocus == this.focusedArtwork = 0 /\ this'.focusedArtwork # 0

\* What every frame that gains the focus does
FocusFrame ==
    /\ op'[1] = "update"
    /\ Cardinality(FocusCalls(this'.log)) = 1
    /\ \A i \in FocusCalls(this'.log) : this'.log[i][2] = this'.focusedArtwork
    /\ this'.lookBackTimer = 0
    /\ this'.lookAwayTimer >= 4000
    /\ this'.lookAwayTimer <= 7000
    /\ LookCalls(this'.log) = {<<artPieces[this'.focusedArtwork].position, 4000>>}
    /\ CreatedBy(<<artPieces[this'.focusedArtwork].position, 4000>>)

\* C20 as stated: a step that takes focusedArtwork from null to an artwork is
\* a frame that calls onFocusArtwork exactly once, with that artwork, and
\* ends with userTriggeredBlur false, lookBackTimer 0, lookAwayTimer within
\* [4, 7] s and an active look animation of 4000 ms toward the artwork.
C20_FocusGained ==
    [][GainsFocus => FocusFrame /\ ~this'.userTriggeredBlur]_vars

\* C20, amended: as above, but userTriggeredBlur, which the focus step
\* resets, is set again before the frame ends when a movement key is held
\* and no transition is running: handleMovement's registerActivity then
\* leaves natural mode in the same frame.
C20_FocusGainedThenMoved ==
    [][GainsFocus
         => /\ FocusFrame
            /\ this'.userTriggeredBlur
                 <=> HasLoggedWith(this'.log, "startTransition", FALSE)]_vars

\* a frame has focused an artwork and drawn a look-away time above 4 s
C20_Witness ==
    /\ op[1] = "update"
    /\ Cardinality(FocusCalls(this.log)) = 1
    /\ this.focusedArtwork # 0
    /\ ~this.userTriggeredBlur
    /\ this.lookAwayTimer > 4000
    /\ this.lookAnimation.active
    /\ this.lookAnimation.duration = 4000
    /\ this.lookAnimation.startTime = now

\* The artworks the handler has passed to onBlurArtwork
BlurCalls(log) ==
    {log[i][2] : i \in {j \in 1..Len(log) : log[j][1] = "onBlurArtwork"}}

\* C21: onBlurArtwork is only invoked for an artwork during whose focus the
\* user pressed a key or moved the locked pointer; a step that is not a
\* frame never invokes it, and neither does a frame of the tour.
C21_BlurOnlyAfterInput ==
    [][/\ \A a \in BlurCalls(this'.log) :
             op'[1] = "update" /\ hist.inputOnFocused = a
       /\ (op'[1] = "startIntroAnimation" \/ this.isTourMode)
             => BlurCalls(this'.log) = {}]_vars

\* a frame of the tour has run with an artwork still focused, on which the
\* user gave no input
C21_Witness ==
    /\ op[1] = "update"
    /\ HasLogged(this.log, "updateTour")
    /\ this.focusedArtwork # 0
    /\ hist.inputOnFocused = 0

\* C22: applyNaturalMovement leaves the yaw and pitch fields as they are at
\* every intensity, and with naturalIntensity 0 it leaves the whole
\* controller as it is: orientation, position and both phases.
C22_SwayKeepsAngles ==
    [][op'[1] = "applyNaturalMovement"
         => /\ this'.yaw = this.yaw
            /\ this'.pitch = this.pitch
            /\ this.naturalIntensity = 0
                 => /\ this'.camera = this.camera
                    /\ this'.breathePhase = this.breathePhase
                    /\ this'.wigglePhase = this.wigglePhase
                    /\ this' = Entry]_vars

\* a call at a positive intensity has turned the camera away from the
\* orientation that yaw and pitch give
C22_Witness ==
    /\ op[1] = "applyNaturalMovement"
    /\ HasLogged(this.log, "applyNaturalMovement")
    /\ this.naturalIntensity > 0
    /\ this.camera.quaternion # Quaternion(this.yaw, this.pitch)

\* C23: a mousemove that arrives while the pointer is not locked leaves the
\* controller as it was: yaw, pitch, the camera, isNaturalMode,
\* naturalIntensity, inTransition, the look animation, focusedArtwork,
\* lastActiveTime and every other field.
C23_UnlockedPointerIsIgnored ==
    [][(op'[1] = "mousemove" /\ ~this.pointerLocked)
         => /\ this'.yaw = this.yaw
            /\ this'.pitch = this.pitch
            /\ this'.camera = this.camera
            /\ this'.isNaturalMode = this.isNaturalMode
            /\ this'.naturalIntensity = this.naturalIntensity
            /\ this'.inTransition = this.inTransition
            /\ this'.lookAnimation = this.lookAnimation
            /\ this'.focusedArtwork = this.focusedArtwork
            /\ this'.lastActiveTime = this.lastActiveTime
            /\ this' = Entry]_vars

\* an unlocked mousemove has arrived in natural mode, with an artwork
\* focused and its look animation running
C23_Witness ==
    /\ op[1] = "mousemove"
    /\ ~this.pointerLocked
    /\ this.isNaturalMode
    /\ this.focusedArtwork # 0
    /\ this.lookAnimation.active
    /\ this.lastActiveTime < now

\* floor(tourProgress * lookPoints.length), clamped to the last index
LookTargetIndex(s) ==
    Min((s.tourProgress * Len(s.tourLookPoints)) \div Scale,
        Len(s.tourLookPoints) - 1)

\* The controller looks straight at the point from where the camera is
LooksAt(s, point) ==
    LET direction == SubVectors(point, s.camera.position)
        xzLength  == Sqrt(direction.x * direction.x + direction.z * direction.z)
    IN  /\ s.yaw = DirectionToYaw(direction.x, direction.z)
        /\ s.pitch = DirectionToPitch(direction.y, xzLength)
        /\ s.camera.quaternion = Quaternion(s.yaw, s.pitch)

\* C24: in every frame of the tour the look target index, floor(tourProgress
\* * lookPoints.length) clamped to the last index, is within 0..length-1 and
\* not below the index of the frame before, and the camera looks straight at
\* the look point of that index alone.
C24_TourLookTarget ==
    [][(op'[1] = "update" /\ this.isTourMode /\ Len(this.tourLookPoints) > 0)
         => /\ LookTargetIndex(this') >= 0
            /\ LookTargetIndex(this') <= Len(this.tourLookPoints) - 1
            /\ LookTargetIndex(this') >= LookTargetIndex(this)
            /\ HasLoggedWith(this'.log, "updateTour",
                             (this'.tourProgress * Len(this.tourLookPoints)) \div Scale)
            /\ LooksAt(this', this.tourLookPoints[LookTargetIndex(this') + 1])]_vars

\* a tour frame has moved the look target on to the middle look point
C24_Witness ==
    /\ op[1] = "update"
    /\ HasLogged(this.log, "updateTour")
    /\ this.isTourMode
    /\ LookTargetIndex(this) = 1
    /\ LooksAt(this, this.tourLookPoints[2])

\* C25: with an empty artwork list (which also stands for an absent one) no
\* step sets focusedArtwork, invokes onFocusArtwork or onBlurArtwork, or
\* starts a look animation, however many frames run in natural mode.
C25_EmptyListScansAreIdle ==
    artPieces = <<>>
        => /\ this.focusedArtwork = 0
           /\ ~HasLogged(this.log, "onFocusArtwork")
           /\ ~HasLogged(this.log, "onBlurArtwork")
           /\ ~HasLogged(this.log, "smoothLookAt")
           /\ ~this.lookAnimation.active

\* with an empty list, a scan has run well into a stay in natural mode
C25_Witness ==
    /\ artPieces = <<>>
    /\ op[1] = "update"
    /\ HasLoggedWith(this.log, "findArtworkInView", 0)
    /\ this.isNaturalMode
    /\ this.naturalIntensity = Scale
    /\ now - this.transitionStartTime > scanInterval

\* The square of the ground length of a displacement, in mm^2
GroundSq(d) == Div(d.x, 10) * Div(d.x, 10) + Div(d.z, 10) * Div(d.z, 10)

\* C26: for the same delta, speed and yaw, the step with two movement keys
\* of different axes held is as long as the step with one key held (to one
\* part in a hundred, the precision of the model's arithmetic).
C26_DiagonalStepLength ==
    probe.moved # <<>>
        => LET diagonal == Sqrt(GroundSq(probe.moved.diagonal))
               single   == Sqrt(GroundSq(probe.moved.single))
           IN  /\ single > 0
               /\ Abs(diagonal - single) * 100 <= single

\* a diagonal step has been taken at a yaw off the axes
C26_Witness ==
    /\ probe.moved # <<>>
    /\ probe.yaw = 400
    /\ probe.diagonal = {"w", "d"}
    /\ probe.single = "w"
    /\ probe.moved.diagonal.x # 0
    /\ probe.moved.diagonal.z # 0
    /\ probe.moved.single # probe.moved.diagonal

\* The angle between two directions given by their yaws
AngularDistance(a, b) == Abs(NormalizeAngle(a - b))

\* C27 as stated: for every yaw the controller can hold, also outside
\* (-pi, pi], and every pitch within the clamp, the yaw and pitch read back
\* from the camera's forward direction are the ones that were applied (to
\* 0.015 rad, the precision of the model's sine and arctangent).
C27_RoundTripRecoversPair ==
    probe.read # <<>>
        => /\ Abs(probe.read.yaw - probe.yaw) <= 15
           /\ Abs(probe.read.pitch - probe.pitch) <= 15

\* C27, amended: the pitch read back is the one applied, and the yaw read
\* back is the applied yaw brought into [-pi, pi]: the same direction, and
\* the same number only if the applied yaw was in that range.  The model's
\* exact reading (QuaternionToYaw, QuaternionToPitch) agrees with the
\* step-by-step one.
C27_RoundTripRecoversDirection ==
    probe.read # <<>>
        => /\ Abs(probe.read.pitch - probe.pitch) <= 15
           /\ probe.read.yaw >= -Pi
           /\ probe.read.yaw <= Pi
           /\ AngularDistance(probe.read.yaw, probe.yaw) <= 15
           /\ (probe.yaw > -Pi /\ probe.yaw <= Pi)
                => Abs(probe.read.yaw - probe.yaw) <= 15
           /\ AngularDistance(probe.read.yaw,
                              QuaternionToYaw(Quaternion(probe.yaw, probe.pitch))) <= 15
           /\ Abs(probe.read.pitch
                    - QuaternionToPitch(Quaternion(probe.yaw, probe.pitch))) <= 15

\* a yaw of 4 rad, looking down, has been read back as 4 - 2 pi
C27_Witness ==
    /\ probe.read # <<>>
    /\ probe.yaw = 4000
    /\ probe.pitch = -900
    /\ probe.read.yaw < 0
    /\ AngularDistance(probe.read.yaw, probe.yaw) <= 15


\* C28: keyboard movement is horizontal and independent of pitch: a step of
\* handleMovement leaves the camera's y where it was, and for the same keys,
\* yaw, speed and delta the step in x and z is the one taken with a level view.
C28_StepIgnoresPitch ==
    probe.moved # <<>>
        => /\ probe.moved.diagonal.y = 0
           /\ probe.moved.single.y = 0
           /\ this.camera.position.y = Walker(probe, probe.diagonal).camera.position.y
           /\ probe.moved.diagonal.x = probe.moved.level.x
           /\ probe.moved.diagonal.z = probe.moved.level.z

\* a step has been taken while looking steeply down
C28_Witness ==
    /\ probe.moved # <<>>
    /\ probe.pitch = -1500
    /\ probe.yaw = 2500
    /\ probe.moved.diagonal.x # 0
    /\ probe.moved.diagonal.z # 0
    /\ probe.moved.level = probe.moved.diagonal


\* The artworks of the list that pass both visibility tests of the probe's scan
PassingBoth ==
    {i \in 1..Len(artPieces) :
        isArtworkInView(LookForward(probe.look), probe.position, artPieces[i])}

ScoreOf(i) == Score(LookForward(probe.look), probe.position, artPieces[i])

\* a returned artwork passes both tests, no passing artwork scores higher,
\* and no passing artwork before it in the list scores as high
C29_ReturnedIsFirstBest ==
    (probe.bestArtwork # -1 /\ probe.bestArtwork # 0)
        => /\ probe.bestArtwork \in PassingBoth
           /\ \A i \in PassingBoth :
                 /\ ScoreOf(i) <= ScoreOf(probe.bestArtwork)
                 /\ (i < probe.bestArtwork) => ScoreOf(i) < ScoreOf(probe.bestArtwork)

\* C29: a scan returns the first artwork in list order with the maximal
\* score 3*centeredness - 0.1*distance among those passing both visibility
\* tests, and returns no artwork only when none passes both tests, whatever
\* the viewingDistance values are.
C29_ScanReturnsFirstBest ==
    probe.bestArtwork # -1
        => /\ C29_ReturnedIsFirstBest
           /\ (probe.bestArtwork = 0) => (PassingBoth = {})


\* The look-away and look-back calls a frame made, by the point they aim at
AwayCalls(s) ==
    {i \in 1..Len(GlanceCalls(s)) : GlanceKind(s, GlanceCalls(s)[i]) = "away"}

BackCalls(s) ==
    {i \in 1..Len(GlanceCalls(s)) : GlanceKind(s, GlanceCalls(s)[i]) = "back"}

\* the glances of a focus period alternate, the first being a look-away
GlancesAlternate ==
    \A i \in 1..Len(probe) : probe[i] = (IF i % 2 = 1 THEN "away" ELSE "back")

\* after a frame that looked away: the point is within 0.35/0.15/0.1 m of
\* the artwork, lookBackTimer is armed in [1, 2.5] s and lookAwayTimer has
\* run out; after a frame that looked back: lookAwayTimer is armed in
\* [3, 7] s and lookBackTimer has run out
GlanceArmsTimers ==
    (op[1] = "update" /\ this.focusedArtwork # 0)
        => /\ \A i \in AwayCalls(this) :
                LET point   == GlanceCalls(this)[i][2]
                    artwork == artPieces[this.focusedArtwork].position
                IN  /\ Abs(point.x - artwork.x) <= (35 * Metre) \div 100
                    /\ Abs(point.y - artwork.y) <= (15 * Metre) \div 100
                    /\ Abs(point.z - artwork.z) <= (10 * Metre) \div 100
                    /\ this.lookAwayPoint = <<point>>
                    /\ this.lookBackTimer >= 1000
                    /\ this.lookBackTimer <= 2500
                    /\ this.lookAwayTimer <= 0
           /\ \A i \in BackCalls(this) :
                /\ this.lookAwayTimer >= 3000
                /\ this.lookAwayTimer <= 7000
                /\ this.lookBackTimer <= 0
           /\ Len(GlanceCalls(this)) <= 1
           /\ \A i \in 1..Len(GlanceCalls(this)) :
                /\ this.lookAnimation.active
                /\ this.lookAnimation.duration = 3000

\* a frame looks away only if lookBackTimer had run out before it, and
\* looks back only if lookBackTimer was still running
GlanceTriggers ==
    (op'[1] = "update" /\ this'.focusedArtwork # 0)
        => /\ (AwayCalls(this') # {}) => this.lookBackTimer <= 0
           /\ (BackCalls(this') # {}) => this.lookBackTimer > 0

\* C30: while one artwork stays focused, glances strictly alternate starting
\* with a look-away: a look-away (3 s look-at toward a point within
\* 0.35/0.15/0.1 m of the artwork in x/y/z, lookBackTimer armed in [1, 2.5] s)
\* happens only with lookAwayTimer <= 0 and lookBackTimer <= 0, the glance
\* after it is a look-back (3 s look-at toward the artwork's own position,
\* lookAwayTimer re-armed in [3, 7] s), and two look-aways never occur
\* without a look-back between them.
C30_GlancesAlternate ==
    /\ [](GlancesAlternate /\ GlanceArmsTimers)
    /\ [][GlanceTriggers]_vars

\* one artwork has been looked away from, back at, and away from again
C30_Witness ==
    /\ this.focusedArtwork # 0
    /\ Len(probe) >= 3
    /\ probe[1] = "away" /\ probe[2] = "back" /\ probe[3] = "away"


\* C31: tour mode and a mode transition are never active together, whatever
\* the order of startIntroAnimation, input events and frames.
C31_TourExcludesTransition == ~(this.isTourMode /\ this.inTransition)


\* a key press has just taken the controller out of natural mode
KeyPressLeftNatural ==
    /\ op[1] = "keydown"
    /\ hist.inputWhileNatural
    /\ ~this.isNaturalMode
    /\ ~this.isTourMode

\* C32: once a key press has taken the controller out of natural mode,
\* autonomous look-at motion stops: the frame that follows leaves yaw and
\* pitch as the key press found them.
C32_KeyPressStopsLookAt ==
    [][(KeyPressLeftNatural /\ op'[1] = "update")
          => /\ this'.yaw = this.yaw
             /\ this'.pitch = this.pitch]_vars


\* C33: immediately after a pointer delta received while pointer-locked the
\* controller is in full manual mode: isNaturalMode is false,
\* naturalIntensity is 0, no transition is in progress, no look animation is
\* active and no artwork is focused, whatever the state before the event.
C33_PointerDeltaGivesFullManual ==
    (op[1] = "mousemove" /\ this.pointerLocked)
        => /\ ~this.isNaturalMode
           /\ this.naturalIntensity = 0
           /\ ~this.inTransition
           /\ ~this.lookAnimation.active
           /\ this.focusedArtwork = 0


\* C34: in every state in which no transition is in progress,
\* naturalIntensity is exactly 1 if isNaturalMode is true and exactly 0 if
\* isNaturalMode is false.
C34_IntensityAtRest ==
    ~this.inTransition
        => this.naturalIntensity = (IF this.isNaturalMode THEN Scale ELSE 0)

\* a frame has just completed the transition into natural mode
C34_Witness ==
    /\ op[1] = "update"
    /\ HasLogged(this.log, "updateTransition")
    /\ ~this.inTransition
    /\ this.isNaturalMode
    /\ this.naturalIntensity = Scale


\* The startTransition calls of the last handler that took effect
StartedTransitions ==
    {this.log[i][2] : i \in {j \in 1..Len(this.log) : this.log[j][1] = "startTransition"}}

\* The intensity the transition curve gives at the moment the transition started
IntensityAtStart == updateTransition(this, this.transitionStartTime).naturalIntensity

\* after a handler in which startTransition took effect, the transition runs
\* from now, the intensity is 0 if it leads to natural mode and 1 if it leads
\* to manual mode, and the curve gives that same intensity at the start time
StartsFromOppositeEndpoint ==
    \A toNatural \in StartedTransitions :
        /\ this.inTransition
        /\ this.isNaturalMode = toNatural
        /\ this.transitionStartTime = now
        /\ this.naturalIntensity = (IF toNatural THEN 0 ELSE Scale)
        /\ IntensityAtStart = this.naturalIntensity

\* a transition has started and the curve has not been evaluated for it yet
TransitionNotYetComputed ==
    /\ StartedTransitions # {}
    /\ this.inTransition
    /\ ~this.isTourMode
    /\ \/ op[1] # "update"
       \/ ~this.isNaturalMode

\* C35 as stated: a transition starts from the opposite endpoint of the
\* blend, and the first intensity the transition curve computes for it
\* equals the intensity held just before it started.
C35_FirstIntensityIsHeld ==
    /\ []StartsFromOppositeEndpoint
    /\ [][(TransitionNotYetComputed /\ op'[1] = "update")
            => this'.naturalIntensity = this.naturalIntensity]_vars

\* C35, amended: a transition starts from the opposite endpoint of the
\* blend (intensity 0 toward natural, 1 toward manual) and the curve's value
\* at the start time equals the intensity held; the first intensity actually
\* computed equals it when the transition starts inside update() (toward
\* natural), while a transition toward manual is first computed in a later
\* frame, where the intensity is the curve's value for the time elapsed.
C35_StartsFromOppositeEndpoint ==
    /\ []StartsFromOppositeEndpoint
    /\ [][(TransitionNotYetComputed /\ op'[1] = "update")
            => this'.naturalIntensity =
                 updateTransition(this, now').naturalIntensity]_vars

\* a key press in full natural mode has started the transition to manual mode
C35_Witness ==
    /\ op[1] = "keydown"
    /\ StartedTransitions = {FALSE}
    /\ this.inTransition
    /\ this.naturalIntensity = Scale


\* the frames delivered beyond SettleEnd never run into SettleLimit
SettlesInTime ==
    (this.inTransition \/ this.isTourMode) => now + 3000 <= SettleLimit

\* A key event arriving during a transition
KeyDuringTransition ==
    /\ this.inTransition
    /\ op'[1] \in {"keydown", "keyup"}

Walking(s) ==
    /\ s.pointerLocked
    /\ KeyDirX(s.keys) # 0 \/ KeyDirZ(s.keys) # 0

\* a non-tour frame is about to run for a visitor who is walking
WalkingFrame ==
    /\ op'[1] = "update"
    /\ ~this.isTourMode
    /\ Walking(this)

\* the frame before was a walking frame as well
KeepsWalking ==
    /\ WalkingFrame
    /\ op[1] = "update"
    /\ this.lastActiveTime = now

\* C37 as stated: with the pointer locked and a non-cancelling movement key
\* combination held, every non-tour frame registers activity
\* (lastActiveTime = now), and a frame that follows such a frame never
\* starts the transition toward natural mode.
C37_WalkingNeverIdles ==
    /\ [][WalkingFrame => this'.lastActiveTime = now']_vars
    /\ [][KeepsWalking => ~HasLoggedWith(this'.log, "startTransition", TRUE)]_vars

\* C37, amended: every such frame registers activity, and a frame that
\* follows such a frame by no more than idleThreshold does not start the
\* transition toward natural mode; a frame that comes later than that
\* starts it although the keys are held.
C37_WalkingStaysActive ==
    /\ [][WalkingFrame => this'.lastActiveTime = now']_vars
    /\ [][KeepsWalking
            => (HasLoggedWith(this'.log, "startTransition", TRUE)
                  <=> (now' - now > idleThreshold
                         /\ ~this.isNaturalMode /\ ~this.inTransition))]_vars

\* a second walking frame in a row, which ran into a wall
C37_Witness ==
    /\ op[1] = "update"
    /\ Walking(this)
    /\ this.lastActiveTime = now
    /\ "w" \in this.keys
    /\ nEvents = 1
    /\ \E i \in 1..Len(this.log) :
         this.log[i][1] = "collisionCheck" /\ this.log[i][3]
    /\ now >= StartTime + 1000


\* C38: breathePhase and wigglePhase are within [0, 2 pi] after every frame,
\* for every frame delta, a very large one after a suspended page included.
C38_PhasesWrapped ==
    /\ this.breathePhase >= 0
    /\ this.breathePhase <= TwoPi
    /\ this.wigglePhase >= 0
    /\ this.wigglePhase <= TwoPi


\* C39: the experience starts at most once: whatever the order of the
\* progress interval, the assets-loaded callback, the 100 ms check, the 1 s
\* delay and the 5 s failsafe, cameraController.startIntroAnimation() is
\* called at most one time, and only together with experienceStarted.
C39_StartsAtMostOnce ==
    /\ probe.introStarts <= 1
    /\ probe.experienceStarted <=> (probe.introStarts = 1)
    /\ this.isTourMode => probe.introStarts = 1

\* the failsafe has fired after the check had already started the experience
C39_Witness ==
    /\ op[1] = "failsafe"
    /\ probe.experienceStarted
    /\ probe.introStarts = 1
    /\ probe.seenLoadedAt # 0
    /\ probe.startedAt < now


\* when the experience has started: not before the simulated progress
\* passed 1; 1 s after that if the assets were loaded by then; otherwise at
\* the check that saw them loaded, or with the failsafe 5 s after it
StartedOnSchedule ==
    probe.experienceStarted
        => /\ probe.fullAt # 0
           /\ probe.simulatedProgress > ProgressUnit
           /\ IF probe.loadedAtFull
              THEN probe.startedAt = probe.fullAt + 1000
              ELSE IF probe.seenLoadedAt # 0
              THEN /\ probe.startedAt = probe.seenLoadedAt
                   /\ probe.startedAt <= probe.fullAt + 5000
              ELSE /\ probe.startedAt = probe.fullAt + 5000
                   /\ op[1] = "failsafe" => now = probe.startedAt

\* the experience is not kept waiting beyond the failsafe
NotOverdue ==
    (probe.fullAt # 0 /\ ~probe.experienceStarted) => now <= probe.fullAt + 5000

\* C40: the experience starts whether or not the assets ever finish loading:
\* once the simulated progress has passed 1, startExperience() runs after
\* the 1 s delay if the assets were loaded by then, and otherwise at the
\* first 100 ms check that finds them loaded or, at the latest, when the
\* 5 s failsafe fires.
C40_ExperienceStarts ==
    /\ <>probe.experienceStarted
    /\ [](StartedOnSchedule /\ NotOverdue)
    /\ [][(op'[1] = "checkLoadingInterval" /\ probe.assetsLoaded)
            => (probe'.experienceStarted /\ probe'.startedAt = now')]_vars

\* the failsafe has started the experience although the assets never loaded
C40_Witness ==
    /\ op[1] = "failsafe"
    /\ probe.experienceStarted
    /\ ~probe.assetsLoaded
    /\ probe.startedAt = probe.fullAt + 5000
    /\ this.isTourMode

=============================================================================
